---- MODULE Spec2Model ----
(***************************************************************************)
(* A model of the HGPAK archive codec of HGPAKtool (src/hgpaktool).        *)
(*                                                                         *)
(* Bytes are integers.  Text (file names, the filename blob, manifests)    *)
(* is a sequence of ASCII codes, so that lowercasing, glob matching and    *)
(* CRLF splitting are computed and not assumed.  The payload byte at       *)
(* position p of the i-th stored file is the number Content(i, p), which   *)
(* is different for every (i, p): a byte that is read from the wrong place *)
(* shows.                                                                  *)
(*                                                                         *)
(* Scale.  The program's chunk sizes are 0x10000 and 0x20000 bytes, that   *)
(* is 0x1000 and 0x2000 units of the 0x10-byte alignment.  The model keeps *)
(* the 0x10-byte alignment and the ratio of the two chunk sizes, and       *)
(* counts ChunkUnits units per 0x10000 chunk.                              *)
(***************************************************************************)
EXTENDS Integers, Sequences, FiniteSets, TLC

VARIABLES
    archive,    \* the file at HGPAKFile.fpath, as it lies on disk
    platform,   \* the platform tag the reader was constructed with
    reader,     \* the HGPAKFile object: header, fileIndex, chunkIndex, files, fobj
    call,       \* the last public operation called on the reader and its arguments
    result,     \* what that operation produced: the items yielded, or the count returned
    raised,     \* the exception that left the operation, or "none"
    fs,         \* the destination directory of the last unpack: <<path, bytes>> entries
    packed,     \* the file written by HGPAKFile.repack
    pfile,      \* a PackedFile object on its own (offset, size, _in_chunks)
    hio,        \* a header being written to a buffer and read back
    wio,        \* a FixedBuffer being fed the pieces of chunked_file_reader
    lru         \* the cache functools.lru_cache keeps for _decompress_chunk

vars == <<archive, platform, reader, call, result, raised, fs, packed, pfile, hio, wio, lru>>

(***************************************************************************)
(* Bounds of the model.                                                    *)
(***************************************************************************)
\* 0x10-byte units per 0x10000-byte chunk of the program (0x1000 there).
ChunkUnits == 2
\* The most files (besides the filename blob) an input archive stores.
MaxFiles == 2

(***************************************************************************)
(* Program constants.                                                      *)
(***************************************************************************)
HGPAKFMT_VERSION == 2
\* constants.py: DECOMPRESSED_CHUNK_SIZE = 0x10000, scaled.
DECOMPRESSED_CHUNK_SIZE == ChunkUnits * 16
\* compressors.py: Compressor.decompressed_chunk_size per codec, scaled.
ZstdChunkSize == ChunkUnits * 16
Lz4ChunkSize == 2 * ChunkUnits * 16
OodleChunkSize == 2 * ChunkUnits * 16

Platforms == {"windows", "linux", "mac", "switch"}

\* constants.py: compression_map.
compression_map(plat) ==
    CASE plat = "windows" -> "zstd"
      [] plat = "linux" -> "zstd"
      [] plat = "mac" -> "lz4"
      [] plat = "switch" -> "oodle"
      [] OTHER -> "zstd"

\* compressors.py: Compressor.__init__, the decompressed_chunk_size it sets.
decompressed_chunk_size(compression) ==
    IF compression = "zstd" THEN ZstdChunkSize
    ELSE IF compression = "lz4" THEN Lz4ChunkSize
    ELSE OodleChunkSize

(***************************************************************************)
(* Python helpers.                                                         *)
(***************************************************************************)
Min(a, b) == IF a <= b THEN a ELSE b
Max(a, b) == IF a >= b THEN a ELSE b

\* s[a:b] of Python for 0 <= a and 0 <= b: clamped to the length of s.
Slice(s, a, b) ==
    LET hi == Min(b, Len(s))
    IN  IF a >= hi THEN << >> ELSE [k \in 1..(hi - a) |-> s[a + k]]

\* s[a:] of Python for 0 <= a.
SliceFrom(s, a) == Slice(s, a, Len(s))

Zeros(n) == [k \in 1..n |-> 0]

RECURSIVE Concat(_)
\* b"".join(pieces)
Concat(pieces) ==
    IF pieces = << >> THEN << >> ELSE Head(pieces) \o Concat(Tail(pieces))

(***************************************************************************)
(* utils.py                                                                *)
(***************************************************************************)
determine_bins(num_bytes, bin_size) == (num_bytes + bin_size - 1) \div bin_size

reqChunkBytes(chunk_size) == 16 * determine_bins(chunk_size, 16)

\* A roundup that adds 0x10 for every x.
roundup_always(x) == ((x \div 16) * 16) + 16

\* (x >> 4 << 4) + ((x & 0xF) and 0x10)
roundup(x) == ((x \div 16) * 16) + (IF x % 16 # 0 THEN 16 ELSE 0)

\* (0x10 - (x & 0xF)) & 0xF
padding(x) == (16 - (x % 16)) % 16

(***************************************************************************)
(* api.py: PackedFile.  A PackedFile is a record [offset, size, path,      *)
(* in_chunks_]; in_chunks_ is the memo _in_chunks, << >> while it is None. *)
(***************************************************************************)
PackedFile(offset, size, path) ==
    [offset |-> offset, size |-> size, path |-> path, in_chunks_ |-> << >>]

\* The start chunk without the branch for an offset on a chunk boundary.
start_chunk_wrong(offset) == determine_bins(offset, DECOMPRESSED_CHUNK_SIZE) - 1

\* The start chunk computed by in_chunks.
start_chunk_of(offset) ==
    IF offset % DECOMPRESSED_CHUNK_SIZE = 0
    THEN determine_bins(offset, DECOMPRESSED_CHUNK_SIZE)
    ELSE determine_bins(offset, DECOMPRESSED_CHUNK_SIZE) - 1

\* The end chunk as a count of chunks, not an index.
end_chunk_wrong(offset, size) == determine_bins(offset + size, DECOMPRESSED_CHUNK_SIZE)

\* The end chunk computed by in_chunks.
end_chunk_of(offset, size) ==
    determine_bins(offset + size, DECOMPRESSED_CHUNK_SIZE) - 1

\* The value of the property in_chunks: the memo when it is set.
in_chunks(pf) ==
    IF pf.in_chunks_ = << >>
    THEN <<start_chunk_of(pf.offset), end_chunk_of(pf.offset, pf.size)>>
    ELSE pf.in_chunks_

\* The PackedFile after the property in_chunks was read: the memo is set.
AfterInChunks(pf) == [pf EXCEPT !.in_chunks_ = in_chunks(pf)]

first_chunk_offset(pf) == pf.offset % DECOMPRESSED_CHUNK_SIZE

\* The offset of the last byte of the file, not of the byte after it.
last_chunk_offset_end_wrong(pf) == (pf.offset + pf.size - 1) % DECOMPRESSED_CHUNK_SIZE

last_chunk_offset_end(pf) == (pf.offset + pf.size) % DECOMPRESSED_CHUNK_SIZE

(***************************************************************************)
(* api.py: HGPakHeader.  struct's "<Q" is eight bytes, least significant   *)
(* first; "?" is one byte, 1 for a true value; "x" is a zero byte.         *)
(***************************************************************************)
MAGIC == <<72, 71, 80, 65, 75>>   \* b"HGPAK"

RECURSIVE ShiftRight8(_, _)
\* v >> (8 * k)
ShiftRight8(v, k) == IF k = 0 THEN v ELSE ShiftRight8(v \div 256, k - 1)

\* struct.pack("<Q", v)
PackQ(v) == [k \in 1..8 |-> ShiftRight8(v, k - 1) % 256]

RECURSIVE UnpackQ(_)
\* struct.unpack("<Q", b)[0]
UnpackQ(b) == IF b = << >> THEN 0 ELSE Head(b) + 256 * UnpackQ(Tail(b))

\* struct.pack("?", v)
PackBool(v) == IF v THEN <<1>> ELSE <<0>>

\* struct.unpack("?", b)[0]
UnpackBool(b) == b[1] # 0

\* HGPakHeader.__init__
NewHeader ==
    [version |-> HGPAKFMT_VERSION, file_count |-> 0, chunk_count |-> 0,
     is_compressed |-> FALSE, data_offset |-> 0]

\* write with the format "<5s" for the magic: no pad bytes.
HeaderWrite_NoPad(h) ==
    MAGIC \o PackQ(h.version) \o PackQ(h.file_count) \o PackQ(h.chunk_count)
          \o PackBool(h.is_compressed) \o Zeros(7) \o PackQ(h.data_offset)

\* HGPakHeader.write: the bytes written to fobj.
HeaderWrite(h) ==
    MAGIC \o Zeros(3) \o PackQ(h.version) \o PackQ(h.file_count)
          \o PackQ(h.chunk_count) \o PackBool(h.is_compressed) \o Zeros(7)
          \o PackQ(h.data_offset)

\* The fields struct.unpack("<QQQ?7xQ", b) gives for the 0x28 bytes b.
UnpackHeaderFields(b) ==
    [version |-> UnpackQ(Slice(b, 0, 8)),
     file_count |-> UnpackQ(Slice(b, 8, 16)),
     chunk_count |-> UnpackQ(Slice(b, 16, 24)),
     is_compressed |-> UnpackBool(Slice(b, 24, 25)),
     data_offset |-> UnpackQ(Slice(b, 32, 40))]

\* read without the comparison of the version.
HeaderRead_NoVersionCheck(h, bytes) ==
    IF Len(bytes) < 5 THEN [hdr |-> h, err |-> "struct.error"]
    ELSE IF Slice(bytes, 0, 5) # MAGIC
    THEN [hdr |-> h, err |-> "InvalidFileException"]
    ELSE IF Len(Slice(bytes, 8, 48)) # 40 THEN [hdr |-> h, err |-> "struct.error"]
    ELSE [hdr |-> UnpackHeaderFields(Slice(bytes, 8, 48)), err |-> "none"]

\* HGPakHeader.read on a file holding bytes: the header object afterwards
\* and the exception raised.  struct.unpack raises struct.error when it is
\* given fewer bytes than the format needs.
HeaderRead(h, bytes) ==
    IF Len(bytes) < 5 THEN [hdr |-> h, err |-> "struct.error"]
    ELSE IF Slice(bytes, 0, 5) # MAGIC
    THEN [hdr |-> h, err |-> "InvalidFileException"]
    ELSE IF Len(Slice(bytes, 8, 48)) # 40 THEN [hdr |-> h, err |-> "struct.error"]
    ELSE LET got == UnpackHeaderFields(Slice(bytes, 8, 48))
         IN  IF got.version # HGPAKFMT_VERSION
             THEN [hdr |-> got, err |-> "InvalidFileException"]
             ELSE [hdr |-> got, err |-> "none"]

(***************************************************************************)
(* Text.  A str and a bytes of ASCII text are the same sequence of codes   *)
(* (str.encode and bytes.decode map code to code on ASCII).                *)
(***************************************************************************)
CR == 13
LF == 10
STAR == 42
QUESTION == 63
SLASH == 47
BACKSLASH == 92
CRLF == <<13, 10>>

LowerChar(c) == IF c \in 65..90 THEN c + 32 ELSE c
UpperChar(c) == IF c \in 97..122 THEN c - 32 ELSE c

\* str.lower()
Lower(s) == [k \in 1..Len(s) |-> LowerChar(s[k])]
\* str.upper()
Upper(s) == [k \in 1..Len(s) |-> UpperChar(s[k])]

Range(s) == {s[k] : k \in 1..Len(s)}

RECURSIVE RStripCRLF(_)
\* bytes.rstrip(b"\r\n"): trailing bytes that are \r or \n are removed.
RStripCRLF(s) ==
    IF s # << >> /\ s[Len(s)] \in {CR, LF}
    THEN RStripCRLF(SubSeq(s, 1, Len(s) - 1))
    ELSE s

\* The least index k with s[k], s[k+1] = \r, \n; 0 when there is none.
FindCRLF(s) ==
    LET hits == {k \in 1..(Len(s) - 1) : s[k] = CR /\ s[k + 1] = LF}
    IN  IF hits = {} THEN 0 ELSE CHOOSE k \in hits : \A j \in hits : k <= j

RECURSIVE SplitCRLF(_)
\* bytes.split(b"\r\n")
SplitCRLF(s) ==
    LET k == FindCRLF(s)
    IN  IF k = 0 THEN <<s>>
        ELSE <<SubSeq(s, 1, k - 1)>> \o SplitCRLF(SliceFrom(s, k + 1))

RECURSIVE GlobMatch(_, _)
\* fnmatch: whether the whole name matches the pattern; * matches any run of
\* characters (the separator included), ? matches one character.
GlobMatch(pat, name) ==
    IF pat = << >> THEN name = << >>
    ELSE IF Head(pat) = STAR
    THEN \E k \in 0..Len(name) : GlobMatch(Tail(pat), SliceFrom(name, k))
    ELSE IF name = << >> THEN FALSE
    ELSE /\ (Head(pat) = QUESTION \/ Head(pat) = Head(name))
         /\ GlobMatch(Tail(pat), Tail(name))

\* utils.py normalise_path: PureWindowsPath(path).as_posix().lower(), for a
\* relative path without empty, "." or drive components.
normalise_path(path) ==
    Lower([k \in 1..Len(path) |-> IF path[k] = BACKSLASH THEN SLASH ELSE path[k]])

\* utils.py hash_path: the MD5 digest, kept as a token of what is hashed.
hash_path(path) == [md5 |-> normalise_path(path)]

\* The index of the last separator of path, 0 when there is none.
LastSlash(path) ==
    LET hits == {k \in 1..Len(path) : path[k] = SLASH}
    IN  IF hits = {} THEN 0 ELSE CHOOSE k \in hits : \A j \in hits : k >= j

\* os.path.split, for a path whose directory part ends in no separator.
PathSplit(path) ==
    LET k == LastSlash(path)
    IN  IF k = 0 THEN << << >>, path >>
        ELSE << SubSeq(path, 1, k - 1), SliceFrom(path, k) >>

\* os.path.join(a, b) relative to the destination directory.
PathJoin(a, b) == IF a = << >> THEN b ELSE a \o <<SLASH>> \o b

(***************************************************************************)
(* The codec libraries (zstandard, lz4.block, Oodle) are outside the       *)
(* repository.  A compressed payload is a record [codec, raw, len]: raw is *)
(* what it decompresses to and len its length on disk.  The length is a    *)
(* function of the data that is at least the chunk size for a chunk of     *)
(* pairwise different bytes and smaller for a chunk with a run of zeros.   *)
(***************************************************************************)
CodecLen(raw) == Cardinality(Range(raw)) + 8

\* codec.compress(raw)
CodecCompress(codec, raw) == [codec |-> codec, raw |-> raw, len |-> CodecLen(raw)]

\* A stored chunk: [at, size, kind, codec, raw].  at is its offset in the
\* file, size the compressed_size of the chunk index, kind "z" for a codec
\* payload and "raw" for bytes stored as they are.
StoredChunk(at, codec, raw, chunkSize) ==
    LET z == CodecCompress(codec, raw)
    IN  IF z.len >= chunkSize /\ Len(raw) = chunkSize
        THEN [at |-> at, size |-> chunkSize, kind |-> "raw", codec |-> codec, raw |-> raw]
        ELSE [at |-> at, size |-> Min(z.len, chunkSize - 1), kind |-> "z",
              codec |-> codec, raw |-> raw]

(***************************************************************************)
(* Input archives.  An archive on disk is a record                         *)
(*   head      the bytes of the header region (fewer than 0x30 when the    *)
(*             file is cut short),                                         *)
(*   fileInfo  the file index entries [file_hash_, start_offset,           *)
(*             decompressed_size],                                         *)
(*   index     the bytes between the file index and data_offset: the chunk *)
(*             index and its padding,                                      *)
(*   chunks    the stored chunks of a compressed archive,                  *)
(*   data      the data region of an uncompressed archive.                 *)
(* WellFormed builds the archive the format of HGPAKFile._parse and        *)
(* _pack_files lays out for the given platform, names and file sizes.      *)
(***************************************************************************)
PAK_NAME == <<112>>                                              \* "p"
MANIFEST_EXT == <<46, 109, 97, 110, 105, 102, 101, 115, 116>>    \* ".manifest"

\* The stored name of the k-th file: "m/ab", "b", "m/ba", "m/b".
StoredName(k) ==
    CASE k = 1 -> <<109, 47, 97, 98>>
      [] k = 2 -> <<98>>
      [] k = 3 -> <<109, 47, 98, 97>>
      [] OTHER -> <<109, 47, 98>>

\* The byte at position p (from 0) of the k-th stored file.
Content(k, p) == 1000 * k + p + 1

FileBytes(k, size) == [p \in 1..size |-> Content(k, p - 1)]

RECURSIVE NameBlob(_, _)
\* The filename blob of the files k..n: every name followed by \r\n.
NameBlob(k, n) ==
    IF k > n THEN << >> ELSE StoredName(k) \o CRLF \o NameBlob(k + 1, n)

\* The payloads of the logical files 0..n: the blob, then the files.
Payloads(sizes) ==
    <<NameBlob(1, Len(sizes))>> \o [k \in 1..Len(sizes) |-> FileBytes(k, sizes[k])]

RECURSIVE PaddedSizeSum(_, _)
\* The sum of roundup(Len(payloads[j])) for j <= n.
PaddedSizeSum(payloads, n) ==
    IF n = 0 THEN 0 ELSE PaddedSizeSum(payloads, n - 1) + roundup(Len(payloads[n]))

RECURSIVE PaddedData(_)
\* Every payload followed by zero bytes up to the next 0x10 boundary.
PaddedData(payloads) ==
    IF payloads = << >> THEN << >>
    ELSE Head(payloads) \o Zeros(padding(Len(Head(payloads)))) \o PaddedData(Tail(payloads))

RECURSIVE ChunkSizeSum(_, _)
\* The sum of reqChunkBytes(sizes[j]) for j <= n.
ChunkSizeSum(sizes, n) ==
    IF n = 0 THEN 0 ELSE ChunkSizeSum(sizes, n - 1) + reqChunkBytes(sizes[n])

WellFormed(plat, compressed, sizes, fullTail) ==
    LET codec == compression_map(plat)
        cs == decompressed_chunk_size(codec)
        payloads == Payloads(sizes)
        fc == Len(payloads)
        total == PaddedSizeSum(payloads, fc)
        cc == determine_bins(total, cs)
        pre == 48 + 32 * fc + (IF compressed THEN 8 * cc ELSE 0)
        dataOffset == pre + padding(pre)
        region == PaddedData(payloads)
        filled == IF fullTail THEN region \o Zeros(cc * cs - total) ELSE region
        raw == [i \in 1..cc |-> Slice(filled, (i - 1) * cs, i * cs)]
        csize == [i \in 1..cc |-> StoredChunk(0, codec, raw[i], cs).size]
        hdr == [version |-> HGPAKFMT_VERSION, file_count |-> fc, chunk_count |-> cc,
                is_compressed |-> compressed, data_offset |-> dataOffset]
    IN  [head |-> HeaderWrite(hdr),
         fileInfo |-> [i \in 1..fc |->
             [file_hash_ |-> IF i = 1 THEN hash_path(PAK_NAME \o MANIFEST_EXT)
                                      ELSE hash_path(StoredName(i - 1)),
              start_offset |-> dataOffset + PaddedSizeSum(payloads, i - 1),
              decompressed_size |-> Len(payloads[i])]],
         index |-> IF compressed
                   THEN Concat([i \in 1..cc |-> PackQ(csize[i])]) \o Zeros(padding(pre))
                   ELSE << >>,
         chunks |-> IF compressed
                    THEN [i \in 1..cc |->
                             StoredChunk(dataOffset + ChunkSizeSum(csize, i - 1),
                                         codec, raw[i], cs)]
                    ELSE << >>,
         data |-> IF compressed THEN << >> ELSE filled]

\* The file sizes of the input archives: an empty file, a file that needs
\* padding, and sizes that with the blob's 0x10 bytes end on or cross the
\* chunk boundaries of the chunk mapping.
FileSizes ==
    {0, 5, DECOMPRESSED_CHUNK_SIZE + 8, 2 * DECOMPRESSED_CHUNK_SIZE - 16,
     2 * DECOMPRESSED_CHUNK_SIZE}

SizeLists == UNION {[1..n -> FileSizes] : n \in 1..MaxFiles}

\* What may be wrong with the file on disk: nothing, a byte of the magic or
\* of the version, the file cut short, the bytes of the last stored chunk
\* overwritten, a filename blob that ends before the last name, or a
\* chunk_count in the header of a compressed archive that is one less than
\* the chunks stored.
Damages == {"none", "magic", "version", "cut3", "cut20", "chunk", "names", "chunks"}

\* A stored chunk whose bytes were overwritten with 0xFF.
Overwritten(chunk) ==
    [chunk EXCEPT !.kind = "garbage", !.codec = "none",
                  !.raw = [i \in 1..chunk.size |-> 255]]

Damaged(a, damage) ==
    CASE damage = "magic" -> [a EXCEPT !.head[1] = 88]
      [] damage = "version" -> [a EXCEPT !.head[9] = 3]
      [] damage = "cut3" ->
            [head |-> Slice(a.head, 0, 3), fileInfo |-> << >>, index |-> << >>,
             chunks |-> << >>, data |-> << >>]
      [] damage = "cut20" ->
            [head |-> Slice(a.head, 0, 20), fileInfo |-> << >>, index |-> << >>,
             chunks |-> << >>, data |-> << >>]
      [] damage = "chunk" ->
            IF a.chunks = << >> THEN a
            ELSE [a EXCEPT !.chunks[Len(a.chunks)] = Overwritten(@)]
      [] damage = "names" ->
            [a EXCEPT !.fileInfo[1].decompressed_size =
                          @ - (Len(StoredName(Len(a.fileInfo) - 1)) + 2)]
      [] damage = "chunks" ->
            LET h == UnpackHeaderFields(Slice(a.head, 8, 48))
            IN  IF a.chunks = << >> THEN a
                ELSE [a EXCEPT !.head = HeaderWrite([h EXCEPT !.chunk_count = @ - 1])]
      [] OTHER -> a

(***************************************************************************)
(* Reading the file on disk.                                               *)
(***************************************************************************)
\* The offset in the file at which the bytes after the chunk index start.
DataStart(a) == Len(a.head) + 32 * Len(a.fileInfo) + Len(a.index)

\* fobj.seek(pos); fobj.read(n) in the data region of an uncompressed
\* archive: the read stops at the end of the file.
ReadData(a, pos, n) ==
    LET from == Max(pos - DataStart(a), 0)
    IN  Slice(a.data, from, from + n)

\* fobj.seek(pos); fobj.read(n) in the data region of a compressed archive:
\* the stored chunk that lies at pos with n bytes, else bytes that are no
\* payload of any codec.
ReadChunk(a, pos, n) ==
    LET hits == {i \in 1..Len(a.chunks) : a.chunks[i].at = pos /\ a.chunks[i].size = n}
    IN  IF hits = {}
        THEN [at |-> pos, size |-> n, kind |-> "garbage", codec |-> "none",
              raw |-> [i \in 1..n |-> 255]]
        ELSE a.chunks[CHOOSE i \in hits : TRUE]

(***************************************************************************)
(* compressors.py: Compressor.decompress.  The result is                   *)
(* [err, none, bytes]: none is TRUE for the value None, err is             *)
(* "SystemExit" when sys.exit(1) was called.                               *)
(***************************************************************************)
\* The bytes of a payload as they are stored: the data itself for a chunk
\* stored as it is, the output of the codec (bytes the model does not
\* name, -1) for a codec payload.
StoredBytes(payload) ==
    IF payload.kind = "z" THEN [i \in 1..payload.size |-> -1] ELSE payload.raw

\* data[:2] == b"\x8c\x0a", the first bytes of what the Oodle codec writes.
BeginsLikeOodle(payload) == payload.kind = "z" /\ payload.codec = "oodle"

\* The codec decompresses a payload it wrote whose content fits into
\* decompressed_chunk_size bytes, and raises for everything else; after the
\* codec raised, data of exactly decompressed_chunk_size bytes is returned
\* as it is; else _decompress_windows and _decompress_mac exit for data
\* that begins like an Oodle payload, and None is returned otherwise.
Decompress(plat, payload) ==
    IF payload.kind = "z" /\ payload.codec = compression_map(plat)
       /\ Len(payload.raw) <= decompressed_chunk_size(compression_map(plat))
    THEN [err |-> "none", none |-> FALSE, bytes |-> payload.raw]
    ELSE IF payload.size = decompressed_chunk_size(compression_map(plat))
    THEN [err |-> "none", none |-> FALSE, bytes |-> StoredBytes(payload)]
    ELSE IF compression_map(plat) # "oodle" /\ BeginsLikeOodle(payload)
    THEN [err |-> "SystemExit", none |-> FALSE, bytes |-> << >>]
    ELSE [err |-> "none", none |-> TRUE, bytes |-> << >>]

(***************************************************************************)
(* api.py: HGPAKFile.  The reader is a record                              *)
(*   state        "new", "open" (inside the with block), "failed"          *)
(*                (__enter__ raised) or "closed" (__exit__ ran),           *)
(*   fobj         "none", "open" or "closed",                              *)
(*   header, fileInfo, chunk_sizes, chunk_offset, filenames               *)
(*   files        the dict files as the sequence of its PackedFile values  *)
(*                in insertion order; the key of a value is its path.      *)
(***************************************************************************)
NewReader ==
    [state |-> "new", fobj |-> "none", header |-> NewHeader, fileInfo |-> << >>,
     chunk_sizes |-> << >>, chunk_offset |-> << >>, filenames |-> << >>,
     files |-> << >>]

\* files[pf.path] = pf
FilesPut(files, pf) ==
    IF \E k \in 1..Len(files) : files[k].path = pf.path
    THEN [k \in 1..Len(files) |-> IF files[k].path = pf.path THEN pf ELSE files[k]]
    ELSE Append(files, pf)

\* The keys of the dict files, in order.
FileNames(files) == [k \in 1..Len(files) |-> files[k].path]

HasFile(files, path) == \E k \in 1..Len(files) : files[k].path = path

\* files.get(path), for a path that is a key.
FileGet(files, path) == files[CHOOSE k \in 1..Len(files) : files[k].path = path]

\* HGPakFileIndex.read: file_count entries of 0x20 bytes each; struct.unpack
\* raises struct.error at the first entry the file does not hold.
FileIndexRead(a, file_count) ==
    IF Len(a.fileInfo) >= file_count
    THEN [fileInfo |-> SubSeq(a.fileInfo, 1, file_count), err |-> "none"]
    ELSE [fileInfo |-> a.fileInfo, err |-> "struct.error"]

\* HGPakChunkIndex.read: chunk_count little-endian 64-bit sizes.
ChunkIndexRead(a, chunk_count) ==
    IF Len(a.index) >= 8 * chunk_count
    THEN [chunk_sizes |-> [i \in 1..chunk_count |->
                              UnpackQ(Slice(a.index, 8 * (i - 1), 8 * i))],
          err |-> "none"]
    ELSE [chunk_sizes |-> << >>, err |-> "struct.error"]

RECURSIVE ChunkOffsets(_, _)
\* The loop of _parse over chunk_sizes: the position of the file object is
\* recorded, then moved on by reqChunkBytes(size).
ChunkOffsets(pos, sizes) ==
    IF sizes = << >> THEN << >>
    ELSE <<pos>> \o ChunkOffsets(pos + reqChunkBytes(Head(sizes)), Tail(sizes))

\* HGPAKFile._decompress_chunk: [err, none, bytes].  chunk_offset[chunkIdx]
\* raises IndexError for an index past the list.
DecompressChunk(rd, a, plat, chunkIdx) ==
    IF chunkIdx + 1 > Len(rd.chunk_offset) \/ chunkIdx + 1 > Len(rd.chunk_sizes)
    THEN [err |-> "IndexError", none |-> FALSE, bytes |-> << >>]
    ELSE LET d == Decompress(plat, ReadChunk(a, rd.chunk_offset[chunkIdx + 1],
                                             rd.chunk_sizes[chunkIdx + 1]))
         IN  [err |-> d.err, none |-> d.none, bytes |-> d.bytes]

RECURSIVE FirstChunks(_, _, _, _, _)
\* The loop of _parse that decompresses the chunks i..n-1 of the filename
\* blob: [err, bytes]; a chunk that is None is left out.
FirstChunks(rd, a, plat, i, n) ==
    IF i >= n THEN [err |-> "none", bytes |-> << >>]
    ELSE LET d == DecompressChunk(rd, a, plat, i)
             rest == FirstChunks(rd, a, plat, i + 1, n)
         IN  IF d.err # "none" THEN [err |-> d.err, bytes |-> << >>]
             ELSE IF rest.err # "none" THEN rest
             ELSE [err |-> "none", bytes |-> d.bytes \o rest.bytes]

RECURSIVE BuildFiles(_, _, _, _, _)
\* The loop of _parse over enumerate(filenames) from index i (from 0) on:
\* [files, err].  base is subtracted from every start_offset.
BuildFiles(files, filenames, fileInfo, base, i) ==
    IF i >= Len(filenames) THEN [files |-> files, err |-> "none"]
    ELSE IF filenames[i + 1] = << >>
    THEN BuildFiles(files, filenames, fileInfo, base, i + 1)
    ELSE IF i + 2 > Len(fileInfo) THEN [files |-> files, err |-> "IndexError"]
    ELSE BuildFiles(
             FilesPut(files, PackedFile(fileInfo[i + 2].start_offset - base,
                                        fileInfo[i + 2].decompressed_size,
                                        filenames[i + 1])),
             filenames, fileInfo, base, i + 1)

\* The names in the first size bytes of data.
ParseNames(data, size) == SplitCRLF(RStripCRLF(Slice(data, 0, size)))

\* _parse on an uncompressed archive, after the header and the file index.
ParseUncompressed(rd, a) ==
    IF rd.fileInfo = << >> THEN [rd |-> rd, err |-> "IndexError"]
    ELSE LET size == rd.fileInfo[1].decompressed_size
             names == ParseNames(ReadData(a, rd.header.data_offset, size), size)
             built == BuildFiles(rd.files, names, rd.fileInfo, 0, 0)
         IN  [rd |-> [rd EXCEPT !.filenames = names, !.files = built.files],
              err |-> built.err]

\* _parse on a compressed archive, after the header and the file index.
ParseCompressed(rd, a, plat) ==
    LET ci == ChunkIndexRead(a, rd.header.chunk_count)
        rd1 == [rd EXCEPT !.chunk_sizes = ci.chunk_sizes,
                          !.chunk_offset = ChunkOffsets(rd.header.data_offset, ci.chunk_sizes)]
    IN  IF ci.err # "none" THEN [rd |-> rd, err |-> ci.err]
        ELSE IF rd1.fileInfo = << >> THEN [rd |-> rd1, err |-> "IndexError"]
        ELSE LET size == rd1.fileInfo[1].decompressed_size
                 fc == FirstChunks(rd1, a, plat, 0,
                                   determine_bins(size, DECOMPRESSED_CHUNK_SIZE))
                 names == ParseNames(fc.bytes, size)
                 rd2 == [rd1 EXCEPT !.filenames = names]
                 built == BuildFiles(rd2.files, names, rd2.fileInfo,
                                     rd2.header.data_offset, 0)
             IN  IF fc.err # "none" THEN [rd |-> rd1, err |-> fc.err]
                 ELSE IF Len(names) # rd2.header.file_count - 1
                 THEN [rd |-> rd2, err |-> "AssertionError"]
                 ELSE [rd |-> [rd2 EXCEPT !.files = built.files], err |-> built.err]

\* HGPAKFile._parse: the reader afterwards and the exception raised.
Parse(rd, a, plat) ==
    LET h == HeaderRead(rd.header, a.head)
        rd1 == [rd EXCEPT !.header = h.hdr]
        fi == FileIndexRead(a, rd1.header.file_count)
        rd2 == [rd1 EXCEPT !.fileInfo = fi.fileInfo]
    IN  IF h.err # "none" THEN [rd |-> rd1, err |-> h.err]
        ELSE IF fi.err # "none" THEN [rd |-> rd2, err |-> fi.err]
        ELSE IF ~rd2.header.is_compressed THEN ParseUncompressed(rd2, a)
        ELSE ParseCompressed(rd2, a, plat)

(***************************************************************************)
(* api.py: HGPAKFile._get_filtered_filelist.  A filter is                  *)
(* [kind |-> "none"], [kind |-> "str", pat |-> p] or                       *)
(* [kind |-> "list", pats |-> <<p1, ...>>].  The result is the sequence of *)
(* the keys of the dict it returns, in order.                              *)
(***************************************************************************)
\* d[name] = None on a dict whose keys are the sequence d.
KeyAdd(d, name) == IF name \in Range(d) THEN d ELSE Append(d, name)

RECURSIVE KeyAddAll(_, _)
KeyAddAll(d, names) ==
    IF names = << >> THEN d ELSE KeyAddAll(KeyAdd(d, Head(names)), Tail(names))

RECURSIVE FnmatchFilter(_, _)
\* fnmatch.filter(names, pat): the names that match, in their order.
FnmatchFilter(names, pat) ==
    IF names = << >> THEN << >>
    ELSE (IF GlobMatch(pat, Head(names)) THEN <<Head(names)>> ELSE << >>)
         \o FnmatchFilter(Tail(names), pat)

\* The body run for one pattern, without .lower().
AddFilter_NoLower(d, files, pat) ==
    IF STAR \in Range(pat)
    THEN KeyAddAll(d, FnmatchFilter(FileNames(files), pat))
    ELSE KeyAdd(d, pat)

\* The body run for one pattern.
AddFilter(d, files, pat) ==
    IF STAR \in Range(pat)
    THEN KeyAddAll(d, FnmatchFilter(FileNames(files), Lower(pat)))
    ELSE KeyAdd(d, Lower(pat))

RECURSIVE AddFilters(_, _, _)
AddFilters(d, files, pats) ==
    IF pats = << >> THEN d
    ELSE AddFilters(AddFilter(d, files, Head(pats)), files, Tail(pats))

get_filtered_filelist(files, filters) ==
    CASE filters.kind = "none" -> FileNames(files)
      [] filters.kind = "str" -> AddFilter(<< >>, files, filters.pat)
      [] OTHER -> AddFilters(<< >>, files, filters.pats)

(***************************************************************************)
(* api.py: the extractor functions.  The result of running the generator   *)
(* to its end is [pieces, err]: the chunks it yielded and the exception    *)
(* that ended it ("none" when it returned).                                *)
(***************************************************************************)
RECURSIVE ChunkLoop(_, _, _, _, _, _, _)
\* The for loop of _extract_file_compressed from chunk_idx on, with
\* bytes_read bytes counted so far.
ChunkLoop(rd, a, plat, pf, max_bytes, chunk_idx, bytes_read) ==
    LET ch == in_chunks(pf)
        first_off == first_chunk_offset(pf)
        last_off == last_chunk_offset_end(pf)
        d == DecompressChunk(rd, a, plat, chunk_idx)
        piece == IF chunk_idx = ch[1] THEN SliceFrom(d.bytes, first_off)
                 ELSE IF chunk_idx = ch[2]
                 THEN (IF last_off = 0 THEN d.bytes ELSE Slice(d.bytes, 0, last_off))
                 ELSE d.bytes
        counted == IF chunk_idx = ch[1] THEN Len(d.bytes) - first_off
                   ELSE IF chunk_idx = ch[2]
                   THEN (IF last_off = 0 THEN Len(d.bytes) ELSE last_off)
                   ELSE Len(d.bytes)
        rest == ChunkLoop(rd, a, plat, pf, max_bytes, chunk_idx + 1, bytes_read + counted)
    IN  IF chunk_idx > ch[2] THEN [pieces |-> << >>, err |-> "none"]
        ELSE IF d.err # "none" THEN [pieces |-> << >>, err |-> d.err]
        ELSE IF d.none THEN [pieces |-> << >>, err |-> "none"]
        ELSE IF max_bytes # -1 /\ bytes_read + counted >= max_bytes
        THEN [pieces |-> <<piece>>, err |-> "none"]
        ELSE [pieces |-> <<piece>> \o rest.pieces, err |-> rest.err]

\* _extract_file_compressed(fpath, max_bytes)
extract_file_compressed(rd, a, plat, fpath, max_bytes) ==
    IF ~HasFile(rd.files, fpath) THEN [pieces |-> << >>, err |-> "FileNotFoundError"]
    ELSE LET pf == FileGet(rd.files, fpath)
             ch == in_chunks(pf)
             first_off == first_chunk_offset(pf)
             last_off == last_chunk_offset_end(pf)
             d == DecompressChunk(rd, a, plat, ch[1])
         IN  IF ch[1] = ch[2]
             THEN IF d.err # "none" THEN [pieces |-> << >>, err |-> d.err]
                  ELSE IF d.none THEN [pieces |-> << >>, err |-> "none"]
                  ELSE IF last_off # 0
                  THEN [pieces |-> <<Slice(d.bytes, first_off, last_off)>>, err |-> "none"]
                  ELSE [pieces |-> <<SliceFrom(d.bytes, first_off)>>, err |-> "none"]
             ELSE ChunkLoop(rd, a, plat, pf, max_bytes, ch[1], 0)

RECURSIVE ReadPieces(_, _, _, _)
\* n successive fobj.read(size) from position pos on.
ReadPieces(a, pos, size, n) ==
    IF n = 0 THEN << >>
    ELSE <<ReadData(a, pos, size)>> \o ReadPieces(a, pos + size, size, n - 1)

\* _extract_file_uncompressed(fpath, max_bytes)
extract_file_uncompressed(rd, a, fpath, max_bytes) ==
    IF ~HasFile(rd.files, fpath) THEN [pieces |-> << >>, err |-> "FileNotFoundError"]
    ELSE LET pf == FileGet(rd.files, fpath)
             extract_size == IF max_bytes # -1 THEN max_bytes ELSE pf.size
             chunks == extract_size \div DECOMPRESSED_CHUNK_SIZE
             rem == extract_size % DECOMPRESSED_CHUNK_SIZE
         IN  IF chunks = 0
             THEN [pieces |-> <<ReadData(a, pf.offset, extract_size)>>, err |-> "none"]
             ELSE [pieces |->
                      ReadPieces(a, pf.offset, DECOMPRESSED_CHUNK_SIZE, chunks)
                      \o (IF rem # 0
                          THEN <<ReadData(a, pf.offset + chunks * DECOMPRESSED_CHUNK_SIZE, rem)>>
                          ELSE << >>),
                   err |-> "none"]

\* _extractor_function applied to (fpath, max_bytes)
extractor_function(rd, a, plat, fpath, max_bytes) ==
    IF rd.header.is_compressed
    THEN extract_file_compressed(rd, a, plat, fpath, max_bytes)
    ELSE extract_file_uncompressed(rd, a, fpath, max_bytes)

\* The dict files after an extractor function ran for fpath: the compressed
\* one reads the property in_chunks of the PackedFile, which sets its memo.
FilesAfterExtract(rd, fpath) ==
    IF rd.header.is_compressed /\ HasFile(rd.files, fpath)
    THEN FilesPut(rd.files, AfterInChunks(FileGet(rd.files, fpath)))
    ELSE rd.files

(***************************************************************************)
(* api.py: HGPAKFile.extract, run to the end of the generator:             *)
(* [items, err, files].  items are the (fpath, bytes) pairs yielded, err   *)
(* the exception that ended the generator, files the dict files after it.  *)
(***************************************************************************)
Item(fpath, buffer, max_bytes) ==
    [path |-> fpath,
     data |-> IF max_bytes # -1 THEN Slice(buffer, 0, max_bytes) ELSE buffer]

\* The items of one pass of the for loop of extract: the file path fpath is
\* yielded with the buffer when the buffer is not empty.
Yielded(fpath, buffer, max_bytes) ==
    IF Len(buffer) > 0 THEN <<Item(fpath, buffer, max_bytes)>> ELSE << >>

RECURSIVE ExtractLoop(_, _, _, _, _)
\* One pass of the for loop of extract, for the file path Head(names) whose
\* extractor function gave r, and the passes after it.
ExtractOne(rd, a, plat, names, max_bytes, r) ==
    IF r.err # "none"
    THEN [items |-> << >>, err |-> r.err, files |-> FilesAfterExtract(rd, Head(names))]
    ELSE [ExtractLoop([rd EXCEPT !.files = FilesAfterExtract(rd, Head(names))],
                      a, plat, Tail(names), max_bytes)
          EXCEPT !.items = Yielded(Head(names), Concat(r.pieces), max_bytes) \o @]

\* The for loop of extract over the file paths names.
ExtractLoop(rd, a, plat, names, max_bytes) ==
    IF names = << >> THEN [items |-> << >>, err |-> "none", files |-> rd.files]
    ELSE ExtractOne(rd, a, plat, names, max_bytes,
                    extractor_function(rd, a, plat, Head(names), max_bytes))

extract(rd, a, plat, filters, max_bytes) ==
    ExtractLoop(rd, a, plat, get_filtered_filelist(rd.files, filters), max_bytes)

(***************************************************************************)
(* api.py: HGPAKFile.unpack into an empty destination directory:           *)
(* [entries, count, err, files].  entries is the directory afterwards, a   *)
(* set of [path, data] with path relative to the destination; count the    *)
(* number returned.                                                        *)
(***************************************************************************)
\* open(path, "wb") / open(path, "w"), write data, close.
WriteFile(entries, path, data) ==
    {e \in entries : e.path # path} \cup {[path |-> path, data |-> data]}

\* The path, relative to dest, that unpack writes the stored file fpath to.
UnpackPath(fpath, upper, write_manifest) ==
    LET sp == PathSplit(fpath)
    IN  IF upper /\ ~write_manifest
        THEN PathJoin(Upper(sp[1]), Upper(sp[2]))
        ELSE PathJoin(sp[1], sp[2])

RECURSIVE UnpackLoop(_, _, _, _, _, _, _, _)
\* One pass of the for loop of unpack, for the file path Head(names) whose
\* extractor function gave r, and the passes after it.
UnpackOne(rd, a, plat, names, upper, max_bytes, write_manifest, entries, r) ==
    IF r.err # "none"
    THEN [entries |-> WriteFile(entries, UnpackPath(Head(names), upper, write_manifest),
                                Concat(r.pieces)),
          count |-> 0, err |-> r.err, files |-> FilesAfterExtract(rd, Head(names))]
    ELSE [UnpackLoop([rd EXCEPT !.files = FilesAfterExtract(rd, Head(names))],
                     a, plat, Tail(names), upper, max_bytes, write_manifest,
                     WriteFile(entries, UnpackPath(Head(names), upper, write_manifest),
                               Concat(r.pieces)))
          EXCEPT !.count = @ + 1]

\* The for loop of unpack over the file paths names.
UnpackLoop(rd, a, plat, names, upper, max_bytes, write_manifest, entries) ==
    IF names = << >>
    THEN [entries |-> entries, count |-> 0, err |-> "none", files |-> rd.files]
    ELSE UnpackOne(rd, a, plat, names, upper, max_bytes, write_manifest, entries,
                   extractor_function(rd, a, plat, Head(names), max_bytes))

RECURSIVE ManifestText(_)
\* fname + "\r\n" for every name.
ManifestText(names) ==
    IF names = << >> THEN << >> ELSE Head(names) \o CRLF \o ManifestText(Tail(names))

\* The end of unpack, after the loop returned done: the manifest is written
\* when write_manifest is set.
WriteManifest(done, names, write_manifest) ==
    IF done.err # "none" \/ ~write_manifest THEN done
    ELSE [done EXCEPT !.entries =
             WriteFile(@, PAK_NAME \o MANIFEST_EXT, ManifestText(names))]

\* unpack for the file paths names that the filters selected.
UnpackNames(rd, a, plat, names, upper, max_bytes, write_manifest) ==
    IF names = << >>
    THEN [entries |-> {}, count |-> 0, err |-> "none", files |-> rd.files]
    ELSE WriteManifest(
             UnpackLoop(rd, a, plat, names, upper, max_bytes, write_manifest, {}),
             names, write_manifest)

unpack(rd, a, plat, filters, upper, max_bytes, write_manifest) ==
    UnpackNames(rd, a, plat, get_filtered_filelist(rd.files, filters), upper,
                max_bytes, write_manifest)

(***************************************************************************)
(* utils.py: parse_manifest.  The file is read in text mode: a line ends   *)
(* at \n, \r or \r\n.                                                      *)
(***************************************************************************)
Whitespace == {9, 10, 11, 12, 13, 32}

RECURSIVE LStrip(_)
LStrip(s) == IF s # << >> /\ Head(s) \in Whitespace THEN LStrip(Tail(s)) ELSE s

RECURSIVE RStrip(_)
RStrip(s) ==
    IF s # << >> /\ s[Len(s)] \in Whitespace THEN RStrip(SubSeq(s, 1, Len(s) - 1)) ELSE s

\* str.strip() that strips nothing.
Strip_Nothing(s) == s

\* str.strip()
Strip(s) == LStrip(RStrip(s))

\* The least index of a \r or \n in s, 0 when there is none.
FindNewline(s) ==
    LET hits == {k \in 1..Len(s) : s[k] \in {CR, LF}}
    IN  IF hits = {} THEN 0 ELSE CHOOSE k \in hits : \A j \in hits : k <= j

RECURSIVE Lines(_)
\* The lines of a text file, without their terminators.
Lines(s) ==
    LET k == FindNewline(s)
        after == IF s[k] = CR /\ k < Len(s) /\ s[k + 1] = LF THEN k + 1 ELSE k
    IN  IF s = << >> THEN << >>
        ELSE IF k = 0 THEN <<s>>
        ELSE <<SubSeq(s, 1, k - 1)>> \o Lines(SliceFrom(s, after))

RECURSIVE ManifestNames(_)
ManifestNames(lines) ==
    IF lines = << >> THEN << >>
    ELSE (IF Strip(Head(lines)) = << >> THEN << >>
          ELSE <<normalise_path(Strip(Head(lines)))>>)
         \o ManifestNames(Tail(lines))

parse_manifest(text) == ManifestNames(Lines(text))

(***************************************************************************)
(* api.py: HGPAKFile._pack_files and HGPAKFile.repack.                     *)
(***************************************************************************)
\* buffers.py: chunked_file_reader(fpaths, decompressed_chunk_size) has two
\* parameters without a default.
ChunkedFileReaderParams == 2
\* api.py, _pack_files: chunked_file_reader(fullpaths) passes one argument.
ChunkedFileReaderArgs == 1

\* The exception the call chunked_file_reader(fullpaths) raises.
ChunkedFileReaderCall ==
    IF ChunkedFileReaderArgs # ChunkedFileReaderParams THEN "TypeError" ELSE "none"

HasEntry(entries, path) == \E e \in entries : e.path = path

EntryData(entries, path) == (CHOOSE e \in entries : e.path = path).data

RECURSIVE StartOffsets(_, _)
\* The first loop over fileInfo: start_offset is the running total of
\* roundup(decompressed_size), from total on.
StartOffsets(fileInfo, total) ==
    IF fileInfo = << >> THEN << >>
    ELSE <<[Head(fileInfo) EXCEPT !.start_offset = total]>>
         \o StartOffsets(Tail(fileInfo), total + roundup(Head(fileInfo).decompressed_size))

RECURSIVE TotalDataSize(_)
TotalDataSize(fileInfo) ==
    IF fileInfo = << >> THEN 0
    ELSE roundup(Head(fileInfo).decompressed_size) + TotalDataSize(Tail(fileInfo))

NoFile == [head |-> << >>, fileInfo |-> << >>, index |-> << >>, chunks |-> << >>,
           data |-> << >>]

\* _pack_files(filepaths, root_dir, pak_fpath, compress) on a new HGPAKFile,
\* root_dir holding entries: [file, err], the file at pak_fpath afterwards and
\* the exception raised.  os.stat raises FileNotFoundError for a path that is
\* not in root_dir, before pak_fpath is opened.  The header, the file index
\* and the reserved chunk index are written; then the call of
\* chunked_file_reader raises and the with statement closes the file.
pack_files(filepaths, entries, compress) ==
    LET sized == [k \in 1..Len(filepaths) |->
                     [file_hash_ |-> hash_path(filepaths[k]), start_offset |-> 0,
                      decompressed_size |-> Len(EntryData(entries, filepaths[k]))]]
        file_count == Len(sized)
        curr_total_data_size == TotalDataSize(sized)
        chunk_count == determine_bins(curr_total_data_size, DECOMPRESSED_CHUNK_SIZE)
        pre == 48 + 32 * file_count + (IF compress THEN 8 * chunk_count ELSE 0)
        extra_padding == padding(pre)
        data_offset == pre + extra_padding
        placed == StartOffsets(sized, 0)
        fileInfo == [k \in 1..file_count |->
                        [placed[k] EXCEPT !.start_offset = @ + data_offset]]
        header == [version |-> HGPAKFMT_VERSION, file_count |-> file_count,
                   chunk_count |-> chunk_count, is_compressed |-> compress,
                   data_offset |-> data_offset]
        toc == [head |-> HeaderWrite(header), fileInfo |-> fileInfo,
                index |-> IF compress THEN Zeros(8 * chunk_count + extra_padding)
                          ELSE << >>,
                chunks |-> << >>, data |-> << >>]
    IN  IF \E k \in 1..Len(filepaths) : ~HasEntry(entries, filepaths[k])
        THEN [file |-> NoFile, err |-> "FileNotFoundError"]
        ELSE [file |-> toc, err |-> ChunkedFileReaderCall]

\* HGPAKFile.repack(manifest, compress=compress, platform=plat) on the
\* manifest of the directory entries.
repack(entries, compress) ==
    pack_files(<<normalise_path(PAK_NAME \o MANIFEST_EXT)>>
                 \o parse_manifest(EntryData(entries, PAK_NAME \o MANIFEST_EXT)),
               entries, compress)

(***************************************************************************)
(* Values of the variables a specification does not use.                   *)
(***************************************************************************)
Unused == "unused"

(***************************************************************************)
(* Spec: a reader is constructed for a file on disk and a platform and the *)
(* with block is entered (Open).  Inside the block one public operation is *)
(* called, with any arguments, and the block is left (Close): an operation *)
(* writes nothing a later one reads but the memo _in_chunks, which holds   *)
(* the value in_chunks computes anyway.  repack is a class method: it runs *)
(* on the manifest of the directory an unpack wrote.                       *)
(***************************************************************************)
FilterNone == [kind |-> "none", pat |-> << >>, pats |-> << >>]
FilterStr(p) == [kind |-> "str", pat |-> p, pats |-> << >>]
FilterList(ps) == [kind |-> "list", pat |-> << >>, pats |-> ps]

StoredNames == {StoredName(k) : k \in 1..MaxFiles}

\* "zz", a name no archive stores.
MissingName == <<122, 122>>

\* "*", "m/*", "M/*", "*b", "*B", "m/?b": the last has no * and is a literal.
Patterns ==
    {<<42>>, <<109, 47, 42>>, <<77, 47, 42>>, <<42, 98>>, <<42, 66>>,
     <<109, 47, 63, 98>>}

ExtractFilters ==
    {FilterNone}
    \cup {FilterStr(n) : n \in StoredNames}
    \cup {FilterStr(Upper(n)) : n \in StoredNames}
    \cup {FilterStr(p) : p \in Patterns \cup {MissingName}}
    \cup {FilterList(ps) : ps \in
            {<< >>,
             <<MissingName, StoredName(1)>>,
             <<StoredName(1), MissingName, StoredName(2)>>,
             <<<<42, 98>>, <<109, 47, 42>>>>,
             <<StoredName(2), Upper(StoredName(2)), <<42>>>>}}

UnpackFilters ==
    {FilterNone, FilterStr(StoredName(1)), FilterStr(<<42, 66>>),
     FilterList(<<MissingName, StoredName(1)>>),
     FilterList(<<StoredName(2), MissingName, StoredName(1)>>)}

MaxBytesValues == {-1, 0, 16, 2 * DECOMPRESSED_CHUNK_SIZE}

\* The arguments of extract: every filter with the default max_bytes, and
\* every max_bytes with one path, in either case, or no filter.
ExtractArgs ==
    (ExtractFilters \X {-1})
    \cup (({FilterNone} \cup {FilterStr(n) : n \in StoredNames}
              \cup {FilterStr(Upper(n)) : n \in StoredNames}) \X MaxBytesValues)

\* The arguments of unpack: filters, upper, max_bytes, write_manifest.
UnpackArgs ==
    (UnpackFilters \X BOOLEAN \X {-1} \X BOOLEAN)
    \cup ({FilterNone} \X {FALSE} \X {16} \X {TRUE})

NoCall ==
    [name |-> "none", filters |-> FilterNone, max_bytes |-> -1, upper |-> FALSE,
     write_manifest |-> FALSE, compress |-> FALSE]

EmptyDir == [origin |-> NoCall, entries |-> {}]

Init ==
    /\ \E plat \in Platforms, compressed \in BOOLEAN, sizes \in SizeLists,
          fullTail \in BOOLEAN, damage \in Damages :
          /\ platform = plat
          /\ archive = Damaged(WellFormed(plat, compressed, sizes, fullTail), damage)
    /\ reader = NewReader
    /\ call = NoCall
    /\ result = << >>
    /\ raised = "none"
    /\ fs = EmptyDir
    /\ packed = NoFile
    /\ pfile = Unused
    /\ hio = Unused
    /\ wio = Unused /\ lru = Unused

\* HGPAKFile.__enter__: open(fpath, "rb"), then _parse.  When _parse raises,
\* __exit__ is not run.
Open ==
    /\ reader.state = "new"
    /\ \E p \in {Parse([reader EXCEPT !.fobj = "open"], archive, platform)} :
          /\ reader' = [p.rd EXCEPT !.state = IF p.err = "none" THEN "open" ELSE "failed"]
          /\ raised' = p.err
    /\ call' = [NoCall EXCEPT !.name = "open"]
    /\ result' = << >>
    /\ UNCHANGED <<archive, platform, fs, packed, pfile, hio, wio, lru>>

\* HGPAKFile.__exit__
Close ==
    /\ reader.state = "open"
    /\ reader' = [reader EXCEPT !.state = "closed", !.fobj = "closed"]
    /\ UNCHANGED <<archive, platform, call, result, raised, fs, packed, pfile, hio, wio, lru>>

\* pak._get_filtered_filelist(filters)
FilterFiles ==
    /\ reader.state = "open" /\ call.name = "open"
    /\ \E filters \in ExtractFilters :
          /\ call' = [NoCall EXCEPT !.name = "filter", !.filters = filters]
          /\ result' = get_filtered_filelist(reader.files, filters)
    /\ raised' = "none"
    /\ UNCHANGED <<archive, platform, reader, fs, packed, pfile, hio, wio, lru>>

\* list(pak.extract(filters, max_bytes))
Extract ==
    /\ reader.state = "open" /\ call.name = "open"
    /\ \E args \in ExtractArgs :
          \E r \in {extract(reader, archive, platform, args[1], args[2])} :
              /\ call' = [NoCall EXCEPT !.name = "extract", !.filters = args[1],
                                        !.max_bytes = args[2]]
              /\ result' = r.items
              /\ raised' = r.err
              /\ reader' = [reader EXCEPT !.files = r.files]
    /\ UNCHANGED <<archive, platform, fs, packed, pfile, hio, wio, lru>>

\* pak.unpack(dest, filters, upper, max_bytes, write_manifest) for a new,
\* empty directory dest.
Unpack ==
    /\ reader.state = "open" /\ call.name = "open"
    /\ \E args \in UnpackArgs :
          \E r \in {unpack(reader, archive, platform, args[1], args[2], args[3], args[4])} :
              /\ call' = [NoCall EXCEPT !.name = "unpack", !.filters = args[1],
                                        !.upper = args[2], !.max_bytes = args[3],
                                        !.write_manifest = args[4]]
              /\ result' = <<r.count>>
              /\ raised' = r.err
              /\ fs' = [origin |-> call', entries |-> r.entries]
              /\ reader' = [reader EXCEPT !.files = r.files]
    /\ UNCHANGED <<archive, platform, packed, pfile, hio, wio, lru>>

\* HGPAKFile.repack(manifest, compress=compress, platform=platform) for the
\* manifest the last unpack wrote.
Repack ==
    /\ HasEntry(fs.entries, PAK_NAME \o MANIFEST_EXT)
    /\ \E compress \in BOOLEAN :
          \E r \in {repack(fs.entries, compress)} :
              /\ call' = [NoCall EXCEPT !.name = "repack", !.compress = compress]
              /\ packed' = r.file
              /\ raised' = r.err
    /\ result' = << >>
    /\ UNCHANGED <<archive, platform, reader, fs, pfile, hio, wio, lru>>

Next == Open \/ Close \/ FilterFiles \/ Extract \/ Unpack \/ Repack

Spec == Init /\ [][Next]_vars

(***************************************************************************)
(* SpecChunks: a PackedFile of any offset and size; its property in_chunks *)
(* is read.                                                                *)
(***************************************************************************)
MaxOffset == 3 * DECOMPRESSED_CHUNK_SIZE + 1
MaxSize == 2 * DECOMPRESSED_CHUNK_SIZE + 1

InitChunks ==
    /\ pfile \in {PackedFile(o, s, << >>) : o \in 0..MaxOffset, s \in 0..MaxSize}
    /\ archive = Unused /\ platform = Unused /\ reader = Unused /\ call = Unused
    /\ result = Unused /\ raised = Unused /\ fs = Unused /\ packed = Unused
    /\ hio = Unused /\ wio = Unused /\ lru = Unused

\* The properties in_chunks, first_chunk_offset and last_chunk_offset_end
\* of the PackedFile are read.
ReadInChunks ==
    /\ pfile.in_chunks_ = << >>
    /\ pfile' = AfterInChunks(pfile)
    /\ result' = [first_chunk_offset |-> first_chunk_offset(pfile),
                  last_chunk_offset_end |-> last_chunk_offset_end(pfile)]
    /\ UNCHANGED <<archive, platform, reader, call, raised, fs, packed, hio, wio, lru>>

NextChunks == ReadInChunks

SpecChunks == InitChunks /\ [][NextChunks]_vars

(***************************************************************************)
(* SpecHeader: a header object is written to an empty buffer, and a fresh  *)
(* header object reads the buffer.                                         *)
(***************************************************************************)
HeaderValues ==
    [version : {1, 2, 3},
     file_count : {0, 1, 7, 255, 256, 65536},
     chunk_count : {0, 3, 256, 2147483647},
     is_compressed : BOOLEAN,
     data_offset : {0, 272, 70000, 2147483647}]

InitHeader ==
    /\ hio \in {[pc |-> "new", hdr |-> h, buf |-> << >>, rd |-> NewHeader, err |-> "none"] :
                  h \in HeaderValues}
    /\ archive = Unused /\ platform = Unused /\ reader = Unused /\ call = Unused
    /\ result = Unused /\ raised = Unused /\ fs = Unused /\ packed = Unused
    /\ pfile = Unused /\ wio = Unused /\ lru = Unused

WriteHeader ==
    /\ hio.pc = "new"
    /\ hio' = [hio EXCEPT !.pc = "written", !.buf = HeaderWrite(hio.hdr)]
    /\ UNCHANGED <<archive, platform, reader, call, result, raised, fs, packed, pfile, wio, lru>>

ReadHeader ==
    /\ hio.pc = "written"
    /\ LET r == HeaderRead(hio.rd, hio.buf)
       IN  hio' = [hio EXCEPT !.pc = "read", !.rd = r.hdr, !.err = r.err]
    /\ UNCHANGED <<archive, platform, reader, call, result, raised, fs, packed, pfile, wio, lru>>

NextHeader == WriteHeader \/ ReadHeader

SpecHeader == InitHeader /\ [][NextHeader]_vars

(***************************************************************************)
(* buffers.py: chunked_file_reader and FixedBuffer.  A FixedBuffer is a    *)
(* record                                                                  *)
(*   buf                     the bytes of the BytesIO,                     *)
(*   pos                     its position,                                 *)
(*   remaining_bytes, compress, compressed_block_sizes                     *)
(*   compression             the codec of its compressor,                  *)
(*   main_buffer             what was written to the main buffer: one      *)
(*                           record [size, kind, codec, raw, pad] per      *)
(*                           block, pad the zero bytes written after it.   *)
(***************************************************************************)
RECURSIVE FilePieces(_, _)
\* The while loop of chunked_file_reader over one file with the bytes data.
FilePieces(data, cs) ==
    IF data = << >> THEN << >>
    ELSE <<IF Len(Slice(data, 0, cs)) # cs
           THEN Slice(data, 0, cs) \o Zeros(padding(Len(Slice(data, 0, cs))))
           ELSE Slice(data, 0, cs)>>
         \o FilePieces(SliceFrom(data, cs), cs)

RECURSIVE chunked_file_reader(_, _)
\* chunked_file_reader(fpaths, decompressed_chunk_size): everything it
\* yields, for files with the bytes fdatas.
chunked_file_reader(fdatas, cs) ==
    IF fdatas = << >> THEN << >>
    ELSE FilePieces(Head(fdatas), cs) \o chunked_file_reader(Tail(fdatas), cs)

\* FixedBuffer.__init__
FixedBuffer(compression, compress) ==
    [buf |-> Zeros(decompressed_chunk_size(compression)), pos |-> 0,
     remaining_bytes |-> decompressed_chunk_size(compression),
     compress |-> compress, compression |-> compression,
     compressed_block_sizes |-> << >>, main_buffer |-> << >>]

\* BytesIO.write(data) at the position of the buffer.
BufferWrite(b, data) ==
    [b EXCEPT !.buf = Slice(b.buf, 0, b.pos) \o data \o SliceFrom(b.buf, b.pos + Len(data)),
              !.pos = b.pos + Len(data)]

\* clear that only seeks to the start.
BufferClear_SeekOnly(b) == [b EXCEPT !.pos = 0]

\* FixedBuffer.clear
BufferClear(b) ==
    [b EXCEPT !.buf = Zeros(decompressed_chunk_size(b.compression)) \o
                      SliceFrom(b.buf, decompressed_chunk_size(b.compression)),
              !.pos = 0]

\* Compressor.compress raises NotImplementedError for ZSTD.
CompressError(compression) ==
    IF compression = "zstd" THEN "NotImplementedError" ELSE "none"

\* A block that is the codec's output whatever its size.
WrittenBlock_NeverRaw(b, z_len) ==
    [size |-> z_len, kind |-> "z", codec |-> b.compression, raw |-> b.buf,
     pad |-> padding(z_len)]

\* The block write_to_main_buffer writes for the compressed size z_len.
WrittenBlock(b, z_len) ==
    IF ~b.compress
    THEN [size |-> Len(b.buf), kind |-> "raw", codec |-> b.compression, raw |-> b.buf,
          pad |-> 0]
    ELSE IF z_len >= decompressed_chunk_size(b.compression)
    THEN [size |-> decompressed_chunk_size(b.compression), kind |-> "raw",
          codec |-> b.compression, raw |-> b.buf, pad |-> 0]
    ELSE [size |-> z_len, kind |-> "z", codec |-> b.compression, raw |-> b.buf,
          pad |-> padding(z_len)]

\* FixedBuffer.write_to_main_buffer: [b, err], the buffer afterwards and the
\* exception raised.
write_to_main_buffer(b) ==
    IF b.compress /\ CompressError(b.compression) # "none"
    THEN [b |-> b, err |-> CompressError(b.compression)]
    ELSE [b |-> BufferClear(
                  [b EXCEPT !.main_buffer =
                                Append(@, WrittenBlock(b, CodecLen(b.buf))),
                            !.compressed_block_sizes =
                                IF b.compress
                                THEN Append(@, WrittenBlock(b, CodecLen(b.buf)).size)
                                ELSE @]),
          err |-> "none"]

\* add_bytes without the second write.
AddRest_Dropped(b, data, written_bytes) == b

\* add_bytes after the first write, which wrote written_bytes bytes of data
\* and left the buffer b: the second write of what is left of data.
AddRest(b, data, written_bytes) ==
    IF Len(data) > written_bytes
    THEN [BufferWrite(b, SliceFrom(data, written_bytes))
          EXCEPT !.remaining_bytes = b.remaining_bytes - (Len(data) - written_bytes)]
    ELSE b

\* add_bytes from the test of remaining_bytes on, b1 the buffer after the
\* first write and flushed the result of write_to_main_buffer for it.
AddFlush(b1, flushed, data, written_bytes) ==
    IF b1.remaining_bytes # 0 THEN [b |-> AddRest(b1, data, written_bytes), err |-> "none"]
    ELSE IF flushed.err # "none" THEN flushed
    ELSE [b |-> AddRest([flushed.b EXCEPT !.remaining_bytes =
                                              decompressed_chunk_size(b1.compression)],
                        data, written_bytes),
          err |-> "none"]

\* add_bytes with the buffer b1 after the first write.
AddWritten(b1, data, written_bytes) ==
    AddFlush(b1, write_to_main_buffer(b1), data, written_bytes)

\* FixedBuffer.add_bytes(data): [b, err].
add_bytes(b, data) ==
    AddWritten([BufferWrite(b, Slice(data, 0, b.remaining_bytes))
                EXCEPT !.remaining_bytes = @ - Len(Slice(data, 0, b.remaining_bytes))],
               data, Len(Slice(data, 0, b.remaining_bytes)))

(***************************************************************************)
(* SpecBuffer: buffers.py on its own.  A FixedBuffer is fed the pieces     *)
(* chunked_file_reader yields for some files and is flushed once at the    *)
(* end, the way the loop of _pack_files feeds it (api.py:622-628); there   *)
(* the call of chunked_file_reader lacks the chunk size and raises         *)
(* (ChunkedFileReaderCall), here it receives decompressed_chunk_size of    *)
(* the compressor.                                                         *)
(***************************************************************************)
\* The sizes of the files read: empty, with and without padding, and sizes
\* that fill whole buffers of either codec.
BufferFileSizes ==
    {0, 5, 16, DECOMPRESSED_CHUNK_SIZE, 2 * DECOMPRESSED_CHUNK_SIZE + 8,
     4 * DECOMPRESSED_CHUNK_SIZE}

BufferSizeLists == UNION {[1..n -> BufferFileSizes] : n \in 0..MaxFiles}

Compressions == {"zstd", "lz4", "oodle"}

InitBuffer ==
    /\ \E compression \in Compressions, compress \in BOOLEAN, sizes \in BufferSizeLists :
          wio = [pc |-> "feed", sizes |-> sizes,
                 pieces |-> chunked_file_reader(
                                [k \in 1..Len(sizes) |-> FileBytes(k, sizes[k])],
                                decompressed_chunk_size(compression)),
                 sub_buffer |-> FixedBuffer(compression, compress), err |-> "none"]
    /\ archive = Unused /\ platform = Unused /\ reader = Unused /\ call = Unused
    /\ result = Unused /\ raised = Unused /\ fs = Unused /\ packed = Unused
    /\ pfile = Unused /\ hio = Unused /\ lru = Unused

\* One pass of the loop: sub_buffer.add_bytes(_data).
AddBytes ==
    /\ wio.pc = "feed" /\ wio.pieces # << >>
    /\ \E r \in {add_bytes(wio.sub_buffer, Head(wio.pieces))} :
          wio' = [wio EXCEPT !.pieces = Tail(@), !.sub_buffer = r.b, !.err = r.err,
                             !.pc = IF r.err = "none" THEN "feed" ELSE "raised"]
    /\ UNCHANGED <<archive, platform, reader, call, result, raised, fs, packed, pfile, hio, lru>>

\* After the loop: sub_buffer.write_to_main_buffer().
FlushLast ==
    /\ wio.pc = "feed" /\ wio.pieces = << >>
    /\ \E r \in {write_to_main_buffer(wio.sub_buffer)} :
          wio' = [wio EXCEPT !.sub_buffer = r.b, !.err = r.err,
                             !.pc = IF r.err = "none" THEN "done" ELSE "raised"]
    /\ UNCHANGED <<archive, platform, reader, call, result, raised, fs, packed, pfile, hio, lru>>

NextBuffer == AddBytes \/ FlushLast

SpecBuffer == InitBuffer /\ [][NextBuffer]_vars

(***************************************************************************)
(* SpecUtils: roundup, padding and reqChunkBytes of utils.py are called    *)
(* with an integer x >= 0.                                                 *)
(***************************************************************************)
\* The greatest argument: past the multiples 0x10 ... 0x100 of 0x10.
MaxValue == 16 * 16 + 1

InitUtils ==
    /\ call \in {[name |-> "none", x |-> x] : x \in 0..MaxValue}
    /\ result = << >>
    /\ archive = Unused /\ platform = Unused /\ reader = Unused /\ raised = Unused
    /\ fs = Unused /\ packed = Unused /\ pfile = Unused /\ hio = Unused /\ wio = Unused /\ lru = Unused

\* roundup(x), padding(x) and reqChunkBytes(x) are called.
CallUtils ==
    /\ call.name = "none"
    /\ call' = [call EXCEPT !.name = "utils"]
    /\ result' = [roundup |-> roundup(call.x), padding |-> padding(call.x),
                  reqChunkBytes |-> reqChunkBytes(call.x)]
    /\ UNCHANGED <<archive, platform, reader, raised, fs, packed, pfile, hio, wio, lru>>

NextUtils == CallUtils

SpecUtils == InitUtils /\ [][NextUtils]_vars

(***************************************************************************)
(* SpecManifest: parse_manifest reads a manifest file.  The file is given  *)
(* by its lines, each a record [lead, body, trail, term]: spaces, a path   *)
(* or nothing, spaces, and the line terminator.                            *)
(***************************************************************************)
\* The most lines of a manifest.
MaxLines == 2

\* Nothing, "t/p", "t\p", "T\P" and "b".
LineBodies ==
    {<< >>, <<116, 47, 112>>, <<116, 92, 112>>, <<84, 92, 80>>, <<98>>}

ManifestLines ==
    [lead : {<< >>, <<32>>}, body : LineBodies, trail : {<< >>, <<32>>},
     term : {CRLF, <<LF>>, <<CR>>}]

RECURSIVE ManifestFile(_)
\* The text of the file with these lines.
ManifestFile(lines) ==
    IF lines = << >> THEN << >>
    ELSE Head(lines).lead \o Head(lines).body \o Head(lines).trail \o Head(lines).term
         \o ManifestFile(Tail(lines))

InitManifest ==
    /\ call \in {[name |-> "none", lines |-> ls] :
                   ls \in UNION {[1..n -> ManifestLines] : n \in 0..MaxLines}}
    /\ result = << >>
    /\ archive = Unused /\ platform = Unused /\ reader = Unused /\ raised = Unused
    /\ fs = Unused /\ packed = Unused /\ pfile = Unused /\ hio = Unused /\ wio = Unused /\ lru = Unused

\* parse_manifest(manifest)
ParseManifest ==
    /\ call.name = "none"
    /\ call' = [call EXCEPT !.name = "parse_manifest"]
    /\ result' = parse_manifest(ManifestFile(call.lines))
    /\ UNCHANGED <<archive, platform, reader, raised, fs, packed, pfile, hio, wio, lru>>

NextManifest == ParseManifest

SpecManifest == InitManifest /\ [][NextManifest]_vars

(***************************************************************************)
(* SpecNames: the filename blob.  unpack assembles it for a list of paths  *)
(* (the manifest, which repack stores as the first file), and _parse       *)
(* splits the first decompressed_size bytes of the data into names.        *)
(***************************************************************************)
\* "m/ab", "b", "m/ba" and "m/b".
BlobNames == {StoredName(k) : k \in 1..4}

InitNames ==
    /\ call \in {[name |-> "none", paths |-> ps] :
                   ps \in UNION {[1..n -> BlobNames] : n \in 0..(MaxFiles + 1)}}
    /\ result = [blob |-> << >>, filenames |-> << >>]
    /\ archive = Unused /\ platform = Unused /\ reader = Unused /\ raised = Unused
    /\ fs = Unused /\ packed = Unused /\ pfile = Unused /\ hio = Unused /\ wio = Unused /\ lru = Unused

\* unpack: f.write(fname + "\r\n") for every name.
AssembleNames ==
    /\ call.name = "none"
    /\ call' = [call EXCEPT !.name = "assembled"]
    /\ result' = [result EXCEPT !.blob = ManifestText(call.paths)]
    /\ UNCHANGED <<archive, platform, reader, raised, fs, packed, pfile, hio, wio, lru>>

\* _parse: the blob, all of its decompressed_size bytes, is split.
ParseBlob ==
    /\ call.name = "assembled"
    /\ call' = [call EXCEPT !.name = "parsed"]
    /\ result' = [result EXCEPT !.filenames = ParseNames(result.blob, Len(result.blob))]
    /\ UNCHANGED <<archive, platform, reader, raised, fs, packed, pfile, hio, wio, lru>>

NextNames == AssembleNames \/ ParseBlob

SpecNames == InitNames /\ [][NextNames]_vars

(***************************************************************************)
(* SpecCache: _decompress_chunk is decorated with lru_cache(maxsize=256).  *)
(* functools.lru_cache wraps the function once, when the class body runs:  *)
(* there is one cache, its keys are the arguments (self, chunkIdx), a hit  *)
(* makes the entry the most recent, a miss calls the function and stores   *)
(* what it returns (nothing when it raises), and a store into a full cache *)
(* drops the least recent entry.  The cache is the sequence of its entries *)
(* [self, chunkIdx, value], least recent first.  Two readers, 1 and 2, are *)
(* open on the same file.                                                  *)
(***************************************************************************)
\* maxsize: 256 in the code, here as many entries as chunk indexes are
\* looked up on one reader.
CacheMaxSize == 3

Readers == {1, 2}

\* The position of the entry of (self, chunkIdx) in the cache, 0 for none.
CacheFind(cache, self, chunkIdx) ==
    IF \E k \in 1..Len(cache) : cache[k].self = self /\ cache[k].chunkIdx = chunkIdx
    THEN CHOOSE k \in 1..Len(cache) : cache[k].self = self /\ cache[k].chunkIdx = chunkIdx
    ELSE 0

\* The cache without the entry at position k.
CacheDrop(cache, k) == SubSeq(cache, 1, k - 1) \o SubSeq(cache, k + 1, Len(cache))

\* A miss: value is what the function gave for (self, chunkIdx).
CacheStore(cache, self, chunkIdx, value) ==
    IF value.err # "none" THEN cache
    ELSE LET e == [self |-> self, chunkIdx |-> chunkIdx, value |-> value]
         IN  IF Len(cache) >= CacheMaxSize THEN Append(Tail(cache), e)
             ELSE Append(cache, e)

\* The wrapper lru_cache puts around the function: [cache, value].
lru_cache_wrapper(cache, self, chunkIdx, k, value) ==
    IF k > 0
    THEN [cache |-> Append(CacheDrop(cache, k), cache[k]), value |-> cache[k].value]
    ELSE [cache |-> CacheStore(cache, self, chunkIdx, value), value |-> value]

\* Compressed archives of one or two files, as written.
InitCache ==
    /\ \E plat \in Platforms, sizes \in SizeLists :
          /\ platform = plat
          /\ archive = WellFormed(plat, TRUE, sizes, FALSE)
          /\ reader = [Parse([NewReader EXCEPT !.fobj = "open"], archive, plat).rd
                          EXCEPT !.state = "open"]
    /\ lru = << >>
    /\ call = [name |-> "none", self |-> 0, chunkIdx |-> 0]
    /\ result = << >>
    /\ raised = "none"
    /\ fs = Unused /\ packed = Unused /\ pfile = Unused /\ hio = Unused /\ wio = Unused

\* self._decompress_chunk(chunkIdx) on one of the two readers, for a chunk
\* index of the archive or the one past its last.
Lookup ==
    /\ \E self \in Readers, chunkIdx \in 0..Min(Len(archive.chunks), CacheMaxSize - 1) :
          \E r \in {lru_cache_wrapper(lru, self, chunkIdx, CacheFind(lru, self, chunkIdx),
                                      DecompressChunk(reader, archive, platform, chunkIdx))} :
              /\ lru' = r.cache
              /\ result' = r.value
              /\ raised' = r.value.err
              /\ call' = [name |-> "lookup", self |-> self, chunkIdx |-> chunkIdx]
    /\ UNCHANGED <<archive, platform, reader, fs, packed, pfile, hio, wio>>

NextCache == Lookup

SpecCache == InitCache /\ [][NextCache]_vars

(***************************************************************************)
(* SpecFeed: add_bytes is called with any inputs of at most the chunk size *)
(* (its docstring: "The amount of bytes passed in will never be more than  *)
(* 0x20000"), not only with pieces padded to 0x10 bytes, and the buffer is *)
(* flushed once at the end.                                                *)
(***************************************************************************)
\* The lengths of the inputs: from one byte to the whole chunk size cs.
FeedLengths(cs) == {1, 5, 16, cs - 1, cs}

InitFeed ==
    /\ \E compression \in Compressions, compress \in BOOLEAN :
          \E sizes \in UNION {[1..n -> FeedLengths(decompressed_chunk_size(compression))] :
                                 n \in 0..(MaxFiles + 1)} :
              \E inputs \in {[k \in 1..Len(sizes) |-> FileBytes(k, sizes[k])]} :
                  wio = [pc |-> "feed", sizes |-> sizes, inputs |-> inputs,
                         pieces |-> inputs,
                         sub_buffer |-> FixedBuffer(compression, compress), err |-> "none"]
    /\ archive = Unused /\ platform = Unused /\ reader = Unused /\ call = Unused
    /\ result = Unused /\ raised = Unused /\ fs = Unused /\ packed = Unused
    /\ pfile = Unused /\ hio = Unused /\ lru = Unused

SpecFeed == InitFeed /\ [][NextBuffer]_vars

(***************************************************************************)
(* SpecBind: the end of _parse on its own.  The filename blob was split    *)
(* into filenames, some of them empty; the file index holds the entry of   *)
(* the blob and one entry for every name that is not empty; the chunk      *)
(* index holds chunk_sizes.  _parse binds the names to PackedFile objects  *)
(* and computes chunk_offset.                                              *)
(***************************************************************************)
\* Lists of up to MaxFiles + 1 entries, empty or one of the first MaxFiles
\* names, no name twice.  The blob was stripped of \r and \n at its end
\* before the split: only the list of one entry ends with an empty entry.
SplitLists ==
    {names \in UNION {[1..n -> StoredNames \cup {<< >>}] : n \in 1..(MaxFiles + 1)} :
        /\ \A i, j \in 1..Len(names) : (i # j /\ names[i] = names[j]) => names[i] = << >>
        /\ Len(names) > 1 => names[Len(names)] # << >>}

\* The file index for a data region at data_offset with n files after the
\* blob: file j has 5 + j bytes.
BindFileInfo(data_offset, n) ==
    [j \in 1..(n + 1) |->
        [file_hash_ |-> hash_path(<< >>), start_offset |-> data_offset + 16 * (j - 1),
         decompressed_size |-> 4 + j]]

InitBind ==
    /\ \E names \in SplitLists, compressed \in BOOLEAN, data_offset \in {128, 144},
          sizes \in UNION {[1..n -> {5, 16, DECOMPRESSED_CHUNK_SIZE}] : n \in 0..MaxFiles} :
          call = [name |-> "none", filenames |-> names, is_compressed |-> compressed,
                  data_offset |-> data_offset, chunk_sizes |-> sizes,
                  fileInfo |-> BindFileInfo(data_offset,
                                            Len(SelectSeq(names, LAMBDA x : x # << >>)))]
    /\ result = [files |-> << >>, err |-> "none", chunk_offset |-> << >>]
    /\ archive = Unused /\ platform = Unused /\ reader = Unused /\ raised = Unused
    /\ fs = Unused /\ packed = Unused /\ pfile = Unused /\ hio = Unused /\ wio = Unused /\ lru = Unused

\* _parse from the split of the blob on.
Bind ==
    /\ call.name = "none"
    /\ call' = [call EXCEPT !.name = "parsed"]
    /\ \E built \in {BuildFiles(<< >>, call.filenames, call.fileInfo,
                                IF call.is_compressed THEN call.data_offset ELSE 0, 0)} :
          result' = [files |-> built.files, err |-> built.err,
                     chunk_offset |-> IF call.is_compressed
                                      THEN ChunkOffsets(call.data_offset, call.chunk_sizes)
                                      ELSE << >>]
    /\ UNCHANGED <<archive, platform, reader, raised, fs, packed, pfile, hio, wio, lru>>

NextBind == Bind

SpecBind == InitBind /\ [][NextBind]_vars

(***************************************************************************)
(* Claims about PackedFile.in_chunks (SpecChunks).                         *)
(***************************************************************************)
\* floor(x / d) and ceil(x / d) for x >= 0, d > 0, by their definitions.
FloorDiv(x, d) == CHOOSE n \in 0..x : n * d <= x /\ x < (n + 1) * d
CeilDiv(x, d) == CHOOSE n \in 0..x : (n - 1) * d < x /\ x <= n * d
Mod(x, d) == x - d * FloorDiv(x, d)

\* C9: for every offset >= 0 and size >= 0, in_chunks returns
\* start_chunk = floor(offset / CHUNK_SIZE) and
\* end_chunk = ceil((offset + size) / CHUNK_SIZE) - 1, first_chunk_offset is
\* offset mod CHUNK_SIZE and last_chunk_offset_end is
\* (offset + size) mod CHUNK_SIZE.
C9_InChunksFormulas ==
    pfile.in_chunks_ # << >> =>
        /\ pfile.in_chunks_[1] = FloorDiv(pfile.offset, DECOMPRESSED_CHUNK_SIZE)
        /\ pfile.in_chunks_[2] =
               CeilDiv(pfile.offset + pfile.size, DECOMPRESSED_CHUNK_SIZE) - 1
        /\ result.first_chunk_offset = Mod(pfile.offset, DECOMPRESSED_CHUNK_SIZE)
        /\ result.last_chunk_offset_end =
               Mod(pfile.offset + pfile.size, DECOMPRESSED_CHUNK_SIZE)

\* in_chunks was read of a file that starts on a chunk boundary after chunk 0.
C9_Witness ==
    /\ pfile.in_chunks_ # << >>
    /\ pfile.offset > 0
    /\ pfile.offset % DECOMPRESSED_CHUNK_SIZE = 0
    /\ pfile.size > 0

(***************************************************************************)
(* Claims about HGPakHeader (SpecHeader).                                  *)
(***************************************************************************)
\* C3: HGPakHeader.write emits exactly 0x30 bytes, bytes 0..4 are "HGPAK"
\* and bytes 5..7 are zero; for a header of version 2, HGPakHeader.read of
\* those bytes raises nothing and gives a header whose five fields equal
\* the written ones.
C3_HeaderRoundTrip ==
    /\ hio.pc \in {"written", "read"} =>
           /\ Len(hio.buf) = 48
           /\ \A i \in 1..5 : hio.buf[i] = MAGIC[i]
           /\ \A i \in 6..8 : hio.buf[i] = 0
    /\ (hio.pc = "read" /\ hio.hdr.version = 2) =>
           /\ hio.err = "none"
           /\ hio.rd.version = hio.hdr.version
           /\ hio.rd.file_count = hio.hdr.file_count
           /\ hio.rd.chunk_count = hio.hdr.chunk_count
           /\ hio.rd.is_compressed = hio.hdr.is_compressed
           /\ hio.rd.data_offset = hio.hdr.data_offset

\* A version 2 header with fields of more than one byte, the compressed flag
\* set, was written and read.
C3_Witness ==
    /\ hio.pc = "read"
    /\ hio.hdr.version = 2
    /\ hio.hdr.file_count = 65536
    /\ hio.hdr.chunk_count = 256
    /\ hio.hdr.is_compressed
    /\ hio.hdr.data_offset = 70000

(***************************************************************************)
(* Claims about opening an archive (Spec).                                 *)
(***************************************************************************)
\* The file on disk holds five first bytes and they are not "HGPAK".
BadMagic == Len(archive.head) >= 5 /\ Slice(archive.head, 0, 5) # MAGIC

\* The file on disk holds the whole 0x30 byte header, with the magic, and
\* its version field is not 2.
BadVersion ==
    /\ Len(archive.head) = 48
    /\ Slice(archive.head, 0, 5) = MAGIC
    /\ UnpackQ(Slice(archive.head, 8, 16)) # 2

ParsedFiles == IF reader.state \in {"open", "closed"} THEN Range(reader.files) ELSE {}

OffsetsInChunk(pf) ==
    /\ 0 <= first_chunk_offset(pf) /\ first_chunk_offset(pf) < DECOMPRESSED_CHUNK_SIZE
    /\ 0 <= last_chunk_offset_end(pf)
    /\ last_chunk_offset_end(pf) < DECOMPRESSED_CHUNK_SIZE

\* An empty file that starts on a chunk boundary.
EmptyOnBoundary(pf) == pf.size = 0 /\ pf.offset % DECOMPRESSED_CHUNK_SIZE = 0

\* C10 as amended: for every file of a parsed archive the two offsets lie
\* in [0, CHUNK_SIZE); start_chunk <= end_chunk unless the file is empty and
\* starts on a chunk boundary, and then end_chunk = start_chunk - 1.
C10_ChunkRangeAmended ==
    \A pf \in ParsedFiles :
        /\ OffsetsInChunk(pf)
        /\ IF EmptyOnBoundary(pf)
           THEN in_chunks(pf)[2] = in_chunks(pf)[1] - 1
           ELSE in_chunks(pf)[1] <= in_chunks(pf)[2]

\* C10 as stated: for every file of a parsed archive, size 0 and an offset
\* on a chunk boundary included, start_chunk <= end_chunk and the two
\* offsets lie in [0, CHUNK_SIZE).
C10_ChunkRangeAsStated ==
    \A pf \in ParsedFiles :
        /\ OffsetsInChunk(pf)
        /\ in_chunks(pf)[1] <= in_chunks(pf)[2]

\* A compressed archive is parsed that holds an empty file on a chunk
\* boundary and a file that spans more than one chunk.
C10_Witness ==
    /\ reader.state = "open"
    /\ reader.header.is_compressed
    /\ \E pf \in ParsedFiles : EmptyOnBoundary(pf)
    /\ \E pf \in ParsedFiles : in_chunks(pf)[1] < in_chunks(pf)[2]

(***************************************************************************)
(* Claims about _get_filtered_filelist (Spec).                             *)
(***************************************************************************)
\* The patterns of a filter that is not absent, in their order.
PatternsOf(filters) == IF filters.kind = "str" THEN <<filters.pat>> ELSE filters.pats

\* The stored names, as a set, and the place of a stored name in the archive.
StoredSet == Range(FileNames(reader.files))
StoredIdx(x) ==
    IF x \in StoredSet
    THEN CHOOSE k \in 1..Len(reader.files) : reader.files[k].path = x
    ELSE 0

\* What one pattern selects: a glob selects the stored names its lowercased
\* form matches, a literal selects its lowercased form.
Selects(p) ==
    IF STAR \in Range(p) THEN {n \in StoredSet : GlobMatch(Lower(p), n)} ELSE {Lower(p)}

\* What one pattern matches: as Selects, but a literal matches its lowercased
\* form only when that is a stored name.
Matches(p) == Selects(p) \cap StoredSet

\* The first pattern of pats that selects x.
FirstPat(pats, x) ==
    CHOOSE i \in 1..Len(pats) :
        x \in Selects(pats[i]) /\ \A j \in 1..(i - 1) : x \notin Selects(pats[j])

\* r lists its names once each, in order of first insertion: by the first
\* pattern that selects a name, then by the place of the name in the archive.
InsertionOrdered(r, pats) ==
    \A a, b \in 1..Len(r) :
        a < b =>
            /\ r[a] # r[b]
            /\ \/ FirstPat(pats, r[a]) < FirstPat(pats, r[b])
               \/ /\ FirstPat(pats, r[a]) = FirstPat(pats, r[b])
                  /\ StoredIdx(r[a]) < StoredIdx(r[b])

UpperFilter(filters) ==
    [kind |-> filters.kind, pat |-> Upper(filters.pat),
     pats |-> [k \in 1..Len(filters.pats) |-> Upper(filters.pats[k])]]

ChunkBytes(i) == DecompressChunk(reader, archive, platform, i)

\* The archive is compressed and parsed, and every chunk of it decompresses
\* to exactly the chunk size of the chunk mapping.
FullChunks ==
    /\ reader.state = "open"
    /\ reader.header.is_compressed
    /\ \A i \in 0..(Len(archive.chunks) - 1) :
          /\ ChunkBytes(i).err = "none"
          /\ ~ChunkBytes(i).none
          /\ Len(ChunkBytes(i).bytes) = DECOMPRESSED_CHUNK_SIZE

\* The decompressed data region: the decompressed chunks in index order.
Region == Concat([i \in 1..Len(archive.chunks) |-> ChunkBytes(i - 1).bytes])

\* extract was called with the stored path of a file, a str.
ExtractedOne ==
    /\ call.name = "extract"
    /\ call.filters.kind = "str"
    /\ HasFile(reader.files, call.filters.pat)

ExtractedFile == FileGet(reader.files, call.filters.pat)

\* C1: in a compressed archive whose chunks all decompress to exactly
\* CHUNK_SIZE bytes, for a stored file of size > 0 and max_bytes = -1, the
\* pieces _extract_file_compressed yields are, in order, the parts of the
\* chunks start_chunk, start_chunk + 1, ... that lie in
\* [offset, offset + size) of the decompressed data region, so that their
\* concatenation, which extract yields as the content of the one item, is
\* that range of the region.
C1_CompressedExtraction ==
    (FullChunks /\ ExtractedOne /\ call.max_bytes = -1 /\ ExtractedFile.size > 0) =>
        LET pf == ExtractedFile
            lo == pf.offset
            hi == pf.offset + pf.size
            first == lo \div DECOMPRESSED_CHUNK_SIZE
            r == extract_file_compressed(reader, archive, platform, pf.path, -1)
        IN  /\ raised = "none"
            /\ r.err = "none"
            /\ Len(r.pieces) >= 1
            /\ \A i \in 1..Len(r.pieces) :
                  r.pieces[i] =
                      Slice(Region,
                            Max(lo, (first + i - 1) * DECOMPRESSED_CHUNK_SIZE),
                            Min(hi, (first + i) * DECOMPRESSED_CHUNK_SIZE))
            /\ Concat(r.pieces) = Slice(Region, lo, hi)
            /\ result = <<[path |-> pf.path, data |-> Slice(Region, lo, hi)]>>

\* A file that starts on a chunk boundary, ends on a chunk boundary and
\* spans more than one chunk was extracted from an archive of full chunks.
C1_Witness ==
    /\ FullChunks /\ ExtractedOne /\ call.max_bytes = -1
    /\ ExtractedFile.size > DECOMPRESSED_CHUNK_SIZE
    /\ ExtractedFile.offset > 0
    /\ ExtractedFile.offset % DECOMPRESSED_CHUNK_SIZE = 0
    /\ (ExtractedFile.offset + ExtractedFile.size) % DECOMPRESSED_CHUNK_SIZE = 0
    /\ Len(result) = 1

\* extract was called with max_bytes = -1 and a str that is the stored path
\* of a non-empty file, or that path uppercased.
ExtractedExactOrUpper ==
    /\ call.name = "extract"
    /\ call.filters.kind = "str"
    /\ call.max_bytes = -1
    /\ \E pf \in Range(reader.files) :
          /\ pf.size > 0
          /\ call.filters.pat \in {pf.path, Upper(pf.path)}

\* The same path in the other case: uppercased for the stored path, the
\* stored path for the uppercased one.
OtherCase(p) == IF p = Lower(p) THEN Upper(p) ELSE Lower(p)

ListWithMissing ==
    /\ call.name \in {"extract", "unpack"}
    /\ call.filters.kind = "list"
    /\ call.max_bytes = -1
    /\ \A i \in 1..Len(call.filters.pats) : STAR \notin Range(call.filters.pats[i])
    /\ \E i \in 1..Len(call.filters.pats) :
          ~HasFile(reader.files, Lower(call.filters.pats[i]))

\* The non-empty stored files that the list names after a missing path, and
\* that extract yields when it is called with that one path.
AfterMissing ==
    {pf \in Range(reader.files) :
        /\ pf.size > 0
        /\ \E i, j \in 1..Len(call.filters.pats) :
              /\ i < j
              /\ ~HasFile(reader.files, Lower(call.filters.pats[i]))
              /\ Lower(call.filters.pats[j]) = pf.path
        /\ Len(extract(reader, archive, platform, FilterStr(pf.path), -1).items) = 1}

\* C7: when extract or unpack is called with a list of literal paths of
\* which some are not in the archive, the files that come after a missing
\* path in the list are still extracted: extract yields an item for each,
\* unpack writes each.
C7_MissingDoesNotAbort ==
    ListWithMissing =>
        \A pf \in AfterMissing :
            IF call.name = "extract"
            THEN \E k \in 1..Len(result) : result[k].path = pf.path
            ELSE \E e \in fs.entries :
                    /\ e.path = UnpackPath(pf.path, call.upper, call.write_manifest)
                    /\ Len(e.data) = pf.size

\* extract was called with max_bytes >= 0 and a str that is the stored path
\* of a file.
ExtractedPrefix == ExtractedOne /\ call.max_bytes >= 0

\* The bytes extract returned for the file: none when it yielded no item.
ReturnedData == IF result = << >> THEN << >> ELSE result[1].data

\* C8: for a stored file of size s and max_bytes = m >= 0, on the compressed
\* and on the uncompressed path, extract returns for the file exactly its
\* first min(m, s) bytes: nothing for m = 0, the whole file and nothing
\* beyond it for m > s.
C8_MaxBytesPrefix ==
    ExtractedPrefix =>
        LET pf == ExtractedFile
            whole == FileBytes(StoredIdx(pf.path), pf.size)
        IN  /\ raised = "none"
            /\ Len(result) <= 1
            /\ ReturnedData = Slice(whole, 0, Min(call.max_bytes, pf.size))

\* C2: unpacking an archive with write_manifest = True and repacking the
\* written manifest with compress = True gives an archive that is byte for
\* byte the original one.
C2_UnpackRepackIdentical ==
    (/\ call.name = "repack"
     /\ call.compress
     /\ fs.origin.filters.kind = "none"
     /\ fs.origin.max_bytes = -1
     /\ fs.origin.write_manifest) =>
        /\ raised = "none"
        /\ packed = archive

(***************************************************************************)
(* Claims about the writer (Spec).                                         *)
(***************************************************************************)
\* The header of the file a, read back.
WrittenHeader(a) == HeaderRead(NewHeader, a.head).hdr

RECURSIVE OnDiskSum(_)
\* The sum of the 0x10-aligned footprints of the chunk sizes.
OnDiskSum(sizes) ==
    IF sizes = << >> THEN 0 ELSE reqChunkBytes(Head(sizes)) + OnDiskSum(Tail(sizes))

\* The size in bytes of the file a.
FileSize(a) ==
    Len(a.head) + 32 * Len(a.fileInfo) + Len(a.index)
    + OnDiskSum([i \in 1..Len(a.chunks) |-> a.chunks[i].size]) + Len(a.data)

\* repack was called with compress = True.
RepackedCompressed == call.name = "repack" /\ call.compress

RECURSIVE RoundedTotal(_)
\* curr_total_data_size of _pack_files for files of these sizes.
RoundedTotal(sizes) ==
    IF sizes = << >> THEN 0 ELSE roundup(Head(sizes)) + RoundedTotal(Tail(sizes))

\* The loop over the pieces ended and the last block was flushed.
Flushed == wio.pc = "done"

\* C12: once the writer has flushed the last block, the number of blocks it
\* wrote through the staging buffer, and with compress = True the number of
\* compressed sizes it collected for the chunk index, is the chunk_count
\* _pack_files computes for the header, bins(total, DECOMPRESSED_CHUNK_SIZE).
C12_BlocksEqualChunkCount ==
    Flushed =>
        /\ Len(wio.sub_buffer.main_buffer)
              = determine_bins(RoundedTotal(wio.sizes), DECOMPRESSED_CHUNK_SIZE)
        /\ wio.sub_buffer.compress =>
              Len(wio.sub_buffer.compressed_block_sizes)
                 = determine_bins(RoundedTotal(wio.sizes), DECOMPRESSED_CHUNK_SIZE)

\* The paths _pack_files was given by the last repack: the manifest, then the
\* names the manifest lists.
PackedPaths ==
    <<PAK_NAME \o MANIFEST_EXT>>
    \o parse_manifest(EntryData(fs.entries, PAK_NAME \o MANIFEST_EXT))

\* The bytes of the i-th of these files.
PackedData(i) == EntryData(fs.entries, PackedPaths[i])

RECURSIVE RoundedBefore(_)
\* The sum of roundup(size) over the files before the i-th.
RoundedBefore(i) ==
    IF i <= 1 THEN 0 ELSE RoundedBefore(i - 1) + roundup(Len(PackedData(i - 1)))

\* repack was called and every file the manifest lists is in the directory.
RepackedAll ==
    /\ call.name = "repack"
    /\ \A i \in 1..Len(PackedPaths) : HasEntry(fs.entries, PackedPaths[i])

\* The header and the file index of the written file are as C13 says.
TocAsLaidOut ==
    LET h == WrittenHeader(packed)
    IN  /\ h.file_count = Len(PackedPaths)
        /\ h.data_offset =
              roundup(48 + 32 * Len(PackedPaths)
                      + (IF call.compress THEN 8 * h.chunk_count ELSE 0))
        /\ Len(packed.fileInfo) = Len(PackedPaths)
        /\ \A i \in 1..Len(PackedPaths) :
              /\ packed.fileInfo[i].start_offset = h.data_offset + RoundedBefore(i)
              /\ packed.fileInfo[i].start_offset % 16 = 0
              /\ packed.fileInfo[i].decompressed_size = Len(PackedData(i))

\* The decompressed stream of the written file.
WrittenStream ==
    IF packed.chunks # << >>
    THEN Concat([i \in 1..Len(packed.chunks) |-> packed.chunks[i].raw])
    ELSE packed.data

\* C13: in the archive _pack_files writes for N files, file_count = N + 1,
\* data_offset = 0x30 + 0x20 * (N + 1) (+ 8 * chunk_count when compressed)
\* rounded up to 0x10, the start_offset of entry i is data_offset plus the
\* sum of roundup(size) of the entries before it and is a multiple of 0x10,
\* and the bytes of file i lie in the decompressed stream from
\* start_offset - data_offset on.
C13_WriterOffsets ==
    RepackedAll =>
        /\ TocAsLaidOut
        /\ raised = "none"
        /\ \A i \in 1..Len(PackedPaths) :
              Slice(WrittenStream, RoundedBefore(i), RoundedBefore(i) + Len(PackedData(i)))
                 = PackedData(i)

(***************************************************************************)
(* Claims about codec failures (Spec).                                     *)
(***************************************************************************)
\* Compressor.decompress returned None for the chunk with index i: the codec
\* raised and the payload is not of the chunk size.
FailedChunk(i) == ChunkBytes(i).err = "none" /\ ChunkBytes(i).none

\* extract was called for one stored file of a compressed archive, and a
\* chunk the file lies in fails to decompress.
ExtractedFromFailedChunk ==
    /\ ExtractedOne
    /\ reader.header.is_compressed
    /\ call.max_bytes = -1
    /\ ExtractedFile.size > 0
    /\ \E i \in in_chunks(ExtractedFile)[1]..in_chunks(ExtractedFile)[2] : FailedChunk(i)

\* C14: when the codec fails on a chunk of a file and the chunk is not
\* returned as it is, extract ends with an error: the file is not extracted
\* short or empty without one.
C14_FailedChunkSurfaces ==
    ExtractedFromFailedChunk => raised # "none"

(***************************************************************************)
(* Claims about the chunk size (Spec).                                     *)
(***************************************************************************)
\* The chunk size of the codec of the reader's platform.
CodecChunkSize == decompressed_chunk_size(compression_map(platform))

\* C15: the chunk mapping and the filename blob of a reader use the chunk
\* size of the reader's own codec: for every non-empty file of an open
\* compressed archive, in_chunks is (offset div CHUNK_SIZE,
\* (offset + size - 1) div CHUNK_SIZE), and the chunk offsets are those
\* inside chunks of CHUNK_SIZE bytes, for the CHUNK_SIZE of that codec.
C15_OneChunkSizePerReader ==
    (reader.state = "open" /\ reader.header.is_compressed) =>
        \A pf \in Range(reader.files) :
            pf.size > 0 =>
                /\ in_chunks(pf)[1] = pf.offset \div CodecChunkSize
                /\ in_chunks(pf)[2] = (pf.offset + pf.size - 1) \div CodecChunkSize
                /\ first_chunk_offset(pf) = pf.offset % CodecChunkSize
                /\ last_chunk_offset_end(pf) = (pf.offset + pf.size) % CodecChunkSize

\* C16: repack with compress = True for a platform of the Zstd codec
\* (windows, linux) raises NotImplementedError and writes no chunk.
C16_ZstdCompressRejected ==
    (RepackedAll /\ call.compress /\ compression_map(platform) = "zstd") =>
        /\ raised = "NotImplementedError"
        /\ packed.chunks = << >>

(***************************************************************************)
(* Claims about utils.py (SpecUtils).                                      *)
(***************************************************************************)
\* m is the least multiple of 0x10 that is >= x.
LeastMultiple(m, x) ==
    /\ m % 16 = 0
    /\ m >= x
    /\ \A k \in 0..m : (k % 16 = 0 /\ k >= x) => k = m

\* C17: for x >= 0, roundup(x) is the least multiple of 0x10 that is >= x,
\* padding(x) is in 0..0xF, roundup(x) - x = padding(x) and
\* reqChunkBytes(x) = roundup(x); roundup is 0, 0x10, 0x10, 0x10, 0x20 and
\* padding 0, 0xF, 1, 0, 0xF at 0, 1, 0xF, 0x10, 0x11.
C17_RoundupPadding ==
    call.name = "utils" =>
        /\ LeastMultiple(result.roundup, call.x)
        /\ result.padding \in 0..15
        /\ result.roundup - call.x = result.padding
        /\ result.reqChunkBytes = result.roundup
        /\ call.x = 0 => (result.roundup = 0 /\ result.padding = 0)
        /\ call.x = 1 => (result.roundup = 16 /\ result.padding = 15)
        /\ call.x = 15 => (result.roundup = 16 /\ result.padding = 1)
        /\ call.x = 16 => (result.roundup = 16 /\ result.padding = 0)
        /\ call.x = 17 => (result.roundup = 32 /\ result.padding = 15)

\* The functions were called at 0x11, the value after a multiple of 0x10.
C17_Witness ==
    /\ call.name = "utils"
    /\ call.x = 17
    /\ result = [roundup |-> 32, padding |-> 15, reqChunkBytes |-> 32]

(***************************************************************************)
(* Claims about parse_manifest (SpecManifest).                             *)
(***************************************************************************)
\* s with every backslash replaced by a slash, in lower case.
SlashedLower(s) ==
    [k \in 1..Len(s) |->
        LowerChar(IF s[k] = BACKSLASH THEN SLASH ELSE s[k])]

RECURSIVE EntriesOfBodies(_)
\* One entry per line that holds a path: the path alone.
EntriesOfBodies(lines) ==
    IF lines = << >> THEN << >>
    ELSE (IF Head(lines).body = << >> THEN << >>
          ELSE <<SlashedLower(Head(lines).body)>>)
         \o EntriesOfBodies(Tail(lines))

RECURSIVE EntriesOfLines(_)
\* One entry per line that holds a path: the whole line without its
\* terminator.
EntriesOfLines(lines) ==
    IF lines = << >> THEN << >>
    ELSE (IF Head(lines).body = << >> THEN << >>
          ELSE <<SlashedLower(Head(lines).lead \o Head(lines).body \o Head(lines).trail)>>)
         \o EntriesOfLines(Tail(lines))

SelectedNames == get_filtered_filelist(reader.files, call.filters)

\* unpack was called with filters that select stored names only.
UnpackedStored ==
    /\ call.name = "unpack"
    /\ \A k \in 1..Len(SelectedNames) : HasFile(reader.files, SelectedNames[k])

\* The path under dest the claim gives for the stored name.
WrittenPath(name) ==
    IF call.upper /\ ~call.write_manifest THEN Upper(name) ELSE name

\* The files under dest besides the manifest.
UnpackedEntries == {e \in fs.entries : e.path # PAK_NAME \o MANIFEST_EXT}

\* C19: unpack(dest) writes exactly one file under dest per selected stored
\* name and returns their number; with upper and without write_manifest the
\* path of each relative to dest is the stored name uppercased, else the
\* stored name; with write_manifest the manifest at the top of dest lists
\* exactly the selected names, each followed by CRLF.
C19_UnpackWritesSelected ==
    UnpackedStored =>
        /\ raised = "none"
        /\ result = <<Len(SelectedNames)>>
        /\ {e.path : e \in UnpackedEntries}
              = {WrittenPath(SelectedNames[k]) : k \in 1..Len(SelectedNames)}
        /\ Cardinality(UnpackedEntries) = Len(SelectedNames)
        /\ call.write_manifest =>
              /\ HasEntry(fs.entries, PAK_NAME \o MANIFEST_EXT)
              /\ EntryData(fs.entries, PAK_NAME \o MANIFEST_EXT)
                    = ManifestText(SelectedNames)
        /\ ~call.write_manifest => ~HasEntry(fs.entries, PAK_NAME \o MANIFEST_EXT)

(***************************************************************************)
(* Claims about the filename blob (SpecNames).                             *)
(***************************************************************************)
\* C20: parsing the blob assembled from a list of normalized paths, each
\* followed by CRLF, returns that list: same length, names and order, the
\* empty list included.
C20_BlobRoundTrip ==
    call.name = "parsed" => result.filenames = call.paths

(***************************************************************************)
(* Claims about archives whose counts disagree (Spec).                     *)
(***************************************************************************)
\* _parse has split the filename blob, and the number of names it got is
\* not file_count - 1.
NameCountMismatch ==
    /\ reader.state # "new"
    /\ reader.filenames # << >>
    /\ Len(reader.filenames) # reader.header.file_count - 1

\* C21: when the number of names recovered from the filename blob differs
\* from file_count - 1, opening the archive fails with InvalidFileException,
\* compressed or not, and no file map is built.
C21_NameCountMismatchIsInvalidFile ==
    NameCountMismatch =>
        /\ reader.state = "failed"
        /\ raised = "InvalidFileException"
        /\ reader.files = << >>

\* The header and the whole file index of a compressed archive were read,
\* and chunk_count is not the number of chunks of the codec's size that the
\* sizes of the file index fill.
ChunkCountMismatch ==
    /\ reader.state # "new"
    /\ reader.header.is_compressed
    /\ reader.fileInfo # << >>
    /\ Len(reader.fileInfo) = reader.header.file_count
    /\ reader.header.chunk_count #
           determine_bins(TotalDataSize(reader.fileInfo),
                          decompressed_chunk_size(compression_map(platform)))

\* C22: when the chunk_count of a compressed archive's header is not the
\* number of chunks its file index implies, opening the archive fails with
\* InvalidFileException.
C22_ChunkCountMismatchIsInvalidFile ==
    ChunkCountMismatch => (reader.state = "failed" /\ raised = "InvalidFileException")

(***************************************************************************)
(* Claims about the file handle of a reader (Spec).                        *)
(***************************************************************************)
\* C23: the file handle acquired on open is released on every exit path:
\* once the with block was left, normally or after an exception inside it,
\* and once __enter__ failed in _parse, no opened handle remains.
C23_HandleReleased ==
    reader.state \in {"failed", "closed"} => reader.fobj # "open"

(***************************************************************************)
(* Claims about the chunk cache (SpecCache).                               *)
(***************************************************************************)
\* The entries the cache holds for a reader.
CachedFor(cache, self) == {k \in 1..Len(cache) : cache[k].self = self}

\* C24: the chunk cache belongs to one reader and holds at most maxsize
\* entries: a lookup on one reader leaves every entry cached for the other
\* reader in the cache, and a lookup returns the bytes of the chunk, the
\* same at every lookup of that chunk index.
C24_CachePerReader ==
    [][call'.name = "lookup" =>
          /\ \A self \in Readers : Cardinality(CachedFor(lru', self)) <= CacheMaxSize
          /\ \A k \in 1..Len(lru) :
                lru[k].self # call'.self =>
                    CacheFind(lru', lru[k].self, lru[k].chunkIdx) > 0
          /\ result' = DecompressChunk(reader, archive, platform, call'.chunkIdx)]_vars

(***************************************************************************)
(* Claims about FixedBuffer (SpecBuffer).                                  *)
(***************************************************************************)
\* The chunk size of the compressor of the buffer.
BufferChunkSize == decompressed_chunk_size(wio.sub_buffer.compression)

\* The number of bytes a block takes in the main buffer.
BlockBytes(blk) == IF blk.kind = "raw" THEN Len(blk.raw) ELSE blk.size + blk.pad

\* The step flushed the buffer: a block was written to the main buffer.
FlushedInStep == Len(wio'.sub_buffer.main_buffer) > Len(wio.sub_buffer.main_buffer)

\* The block the step wrote.
StepBlock == wio'.sub_buffer.main_buffer[Len(wio'.sub_buffer.main_buffer)]

\* C25: a flush with compression enabled writes the scratch as it is and
\* records the chunk size when the codec output is at least the chunk size,
\* else writes the codec output and padding(compressed_size) zero bytes and
\* records the compressed size; the main buffer grows by
\* reqChunkBytes(recorded size), one size is recorded, and the scratch is
\* zero afterwards.  With compression disabled the whole scratch is written
\* and no size is recorded.
C25_FlushWritesOneBlock ==
    [][FlushedInStep =>
          LET blk == StepBlock
              b == wio.sub_buffer
              b2 == wio'.sub_buffer
          IN  /\ Len(blk.raw) = BufferChunkSize
              /\ Len(b2.main_buffer) = Len(b.main_buffer) + 1
              /\ b.compress =>
                    /\ IF CodecLen(blk.raw) >= BufferChunkSize
                       THEN blk.kind = "raw" /\ blk.size = BufferChunkSize
                       ELSE /\ blk.kind = "z" /\ blk.size = CodecLen(blk.raw)
                            /\ blk.pad = padding(blk.size)
                    /\ BlockBytes(blk) = reqChunkBytes(blk.size)
                    /\ b2.compressed_block_sizes = Append(b.compressed_block_sizes, blk.size)
              /\ ~b.compress =>
                    /\ blk.kind = "raw" /\ BlockBytes(blk) = BufferChunkSize
                    /\ b2.compressed_block_sizes = << >>
              /\ Len(b2.buf) = BufferChunkSize
              /\ SliceFrom(b2.buf, b2.pos) = Zeros(BufferChunkSize - b2.pos)
              /\ wio'.pc = "done" => b2.buf = Zeros(BufferChunkSize)]_vars

\* A compressing buffer was flushed for the last time and has written a
\* block as it was and a block of codec output with padding.
C25_Witness ==
    /\ wio.pc = "done"
    /\ wio.sub_buffer.compress
    /\ \E i, j \in 1..Len(wio.sub_buffer.main_buffer) :
          /\ wio.sub_buffer.main_buffer[i].kind = "raw"
          /\ wio.sub_buffer.main_buffer[j].kind = "z"
          /\ wio.sub_buffer.main_buffer[j].pad > 0

\* Everything the buffer is fed, in order.
AllPieces == wio.inputs

\* The inputs of the add_bytes calls made so far.
FedPieces == SubSeq(AllPieces, 1, Len(AllPieces) - Len(wio.pieces))

\* The scratch contents handed to the flushes so far, one after the other.
FlushedScratch ==
    Concat([i \in 1..Len(wio.sub_buffer.main_buffer) |-> wio.sub_buffer.main_buffer[i].raw])

\* Between the calls the flushed chunks and the filled part of the scratch
\* are the inputs so far, in order; after the last flush the flushed chunks
\* are all inputs followed by zeros, and only the last chunk holds zeros
\* that are no input.
BytesKept ==
    /\ wio.pc = "feed" =>
          /\ FlushedScratch \o Slice(wio.sub_buffer.buf, 0, wio.sub_buffer.pos)
                = Concat(FedPieces)
          /\ Len(FlushedScratch) = Len(wio.sub_buffer.main_buffer) * BufferChunkSize
    /\ wio.pc = "done" =>
          LET all == Concat(AllPieces)
              n == Len(wio.sub_buffer.main_buffer)
          IN  /\ Len(FlushedScratch) = n * BufferChunkSize
              /\ Slice(FlushedScratch, 0, Len(all)) = all
              /\ SliceFrom(FlushedScratch, Len(all)) = Zeros(n * BufferChunkSize - Len(all))
              /\ n >= 1 /\ Len(all) >= (n - 1) * BufferChunkSize

\* C26: for add_bytes calls with inputs of at most the chunk size and one
\* last flush, the scratch contents handed to the flushes are, one after
\* the other, all inputs in call order, zero-filled to the end of the last
\* chunk; every flushed chunk but the last is full of input bytes, and one
\* add_bytes call flushes at most once.
C26_NoByteLostOrReordered ==
    /\ []BytesKept
    /\ [][Len(wio'.sub_buffer.main_buffer) <= Len(wio.sub_buffer.main_buffer) + 1]_vars

\* The buffer was fed 0x10 bytes and then a whole chunk, which it took in
\* two parts around a flush, and was flushed for the last time.
C26_Witness ==
    /\ wio.pc = "done"
    /\ wio.sizes = <<16, BufferChunkSize>>
    /\ Len(wio.sub_buffer.main_buffer) = 2
    /\ \A i \in 1..Len(AllPieces) : Len(AllPieces[i]) <= BufferChunkSize
    /\ FlushedScratch = Concat(AllPieces) \o Zeros(BufferChunkSize - 16)

\* C30: on return from add_bytes, after any number of calls with inputs of
\* at most the chunk size, 0 < remaining_bytes <= chunk size, the write
\* position is chunk size - remaining_bytes, and the scratch is zero from
\* the write position to its end.
C30_BufferInvariant ==
    wio.pc = "feed" =>
        LET b == wio.sub_buffer
        IN  /\ 0 < b.remaining_bytes /\ b.remaining_bytes <= BufferChunkSize
            /\ b.pos = BufferChunkSize - b.remaining_bytes
            /\ Len(b.buf) = BufferChunkSize
            /\ SliceFrom(b.buf, b.pos) = Zeros(b.remaining_bytes)

\* add_bytes has returned after it flushed a full scratch and wrote the
\* rest of its input to the cleared one.
C30_Witness ==
    /\ wio.pc = "feed"
    /\ wio.sizes = <<16, BufferChunkSize>>
    /\ wio.pieces = << >>
    /\ Len(wio.sub_buffer.main_buffer) = 1
    /\ wio.sub_buffer.pos = 16

(***************************************************************************)
(* Claims about the names and the file index (SpecBind).                   *)
(***************************************************************************)
\* The entries of the split blob that are not empty, in order.
KeptNames == SelectSeq(call.filenames, LAMBDA x : x # << >>)

\* C27: the empty entries of the split blob are discarded and the k-th
\* name that is left, k from 0, is bound to fileInfo[k+1]: its PackedFile
\* has the decompressed_size as size and start_offset - data_offset as
\* offset (start_offset in an uncompressed archive); and chunk_offset[i] is
\* data_offset plus the sum of reqChunkBytes(chunk_sizes[j]) for j < i.
C27_NamesBoundInOrder ==
    call.name = "parsed" =>
        /\ result.err = "none"
        /\ Len(result.files) = Len(KeptNames)
        /\ \A k \in 1..Len(result.files) :
              /\ result.files[k].path = KeptNames[k]
              /\ result.files[k].size = call.fileInfo[k + 1].decompressed_size
              /\ result.files[k].offset =
                     call.fileInfo[k + 1].start_offset
                         - (IF call.is_compressed THEN call.data_offset ELSE 0)
        /\ call.is_compressed =>
              /\ Len(result.chunk_offset) = Len(call.chunk_sizes)
              /\ \A i \in 1..Len(call.chunk_sizes) :
                    result.chunk_offset[i] =
                        call.data_offset + ChunkSizeSum(call.chunk_sizes, i - 1)

(***************************************************************************)
(* Claims about max_bytes in unpack (Spec).                                *)
(***************************************************************************)
\* unpack was called with max_bytes > 0 on an archive as it was written.
UnpackedPrefix ==
    /\ UnpackedStored
    /\ call.max_bytes > 0
    /\ \E compressed \in BOOLEAN, sizes \in SizeLists, fullTail \in BOOLEAN :
          archive = WellFormed(platform, compressed, sizes, fullTail)

\* C28: for every stored file of size s and max_bytes = m > 0, the pieces
\* the extractor function produces, which unpack writes, total min(s, m)
\* bytes, on the compressed and on the uncompressed path.
C28_UnpackWritesMinBytes ==
    UnpackedPrefix =>
        /\ raised = "none"
        /\ \A k \in 1..Len(SelectedNames) :
              \E e \in UnpackedEntries :
                  /\ e.path = WrittenPath(SelectedNames[k])
                  /\ Len(e.data) = Min(FileGet(reader.files, SelectedNames[k]).size,
                                       call.max_bytes)

(***************************************************************************)
(* Claims about the written archive read back (Spec).                      *)
(***************************************************************************)
\* A new reader of the platform after _parse of the file repack wrote.
ReadBack == Parse([NewReader EXCEPT !.fobj = "open"], packed, platform)

\* The bytes the extractor function of the reader rd yields for fpath from
\* the written file.
ReadBackBytes(rd, fpath) ==
    Concat(extractor_function(rd, packed, platform, fpath, -1).pieces)

\* C29: for any list of files packed by _pack_files, compressed or not,
\* parsing the written archive gives the packed names in the packed order,
\* and extracting each name gives the bytes of that input file.
C29_PackParseExtract ==
    RepackedAll =>
        /\ raised = "none"
        /\ ReadBack.err = "none"
        /\ FileNames(ReadBack.rd.files) = Tail(PackedPaths)
        /\ \A i \in 2..Len(PackedPaths) :
              ReadBackBytes(ReadBack.rd, PackedPaths[i]) = PackedData(i)

====
